---- MODULE Spec2Model ----
(***************************************************************************)
(* Sentence-extraction pipelines of books_parser: the Catalan parser       *)
(* (catalan_parser.py), the Italian parser (italian_parser.py) and the     *)
(* Japanese parser (japan_parser.py).                                      *)
(*                                                                         *)
(* A Python str is modelled as a sequence of characters.  A character is   *)
(* a TLA+ string: an ASCII character stands for itself, any other          *)
(* character is written with its HTML entity name ("agrave" is U+00E0,     *)
(* "middot" is U+00B7) or, for Japanese, with a romanised name prefixed    *)
(* by its script ("kj_" kanji, "hi_" hiragana, "ka_" katakana, "fw_"       *)
(* fullwidth form, "jp_" Japanese punctuation).  The character classes     *)
(* below list, for every class the code tests (\w, \s, \d, str.isupper,    *)
(* str.isalpha, a code-point range), the characters of the model's         *)
(* alphabet that belong to it.                                             *)
(***************************************************************************)
EXTENDS Integers, Sequences, FiniteSets, TLC

(***************************************************************************)
(* Alphabet and character classes                                          *)
(***************************************************************************)
AsciiLowerSeq == <<"a","b","c","d","e","f","g","h","i","j","k","l","m",
                   "n","o","p","q","r","s","t","u","v","w","x","y","z">>
AsciiUpperSeq == <<"A","B","C","D","E","F","G","H","I","J","K","L","M",
                   "N","O","P","Q","R","S","T","U","V","W","X","Y","Z">>
\* U+00E0.. accented lower-case letters and, at the same index, their
\* upper-case forms (U+00C0..): the letters the two allowed-character
\* sets name.
AccentLowerSeq == <<"agrave","egrave","eacute","igrave","iacute","icirc","iuml",
                    "ograve","oacute","ugrave","uacute","uuml","ccedil">>
AccentUpperSeq == <<"Agrave","Egrave","Eacute","Igrave","Iacute","Icirc","Iuml",
                    "Ograve","Oacute","Ugrave","Uacute","Uuml","Ccedil">>

Range(f) == {f[i] : i \in DOMAIN f}

AsciiLower == Range(AsciiLowerSeq)
AsciiUpper == Range(AsciiUpperSeq)
AccentLower == Range(AccentLowerSeq)
AccentUpper == Range(AccentUpperSeq)
\* The regex range [A-Z]
RangeAZ == AsciiUpper
\* The regex range [U+00C0-U+00FF] (written A-grave to y-diaeresis in the source)
RangeLatin1Letters == AccentLower \cup AccentUpper
LowerLetters == AsciiLower \cup AccentLower
UpperLetters == AsciiUpper \cup AccentUpper

AsciiDigits == {"0","1","2","3","4","5","6","7","8","9"}
\* U+FF10..U+FF19
FullwidthDigits == {"fw_0","fw_1","fw_2","fw_3"}
\* U+4E00..U+9FFF
Kanji == {"kj_dai","kj_shou","kj_wa","kj_setsu","kj_ichi","kj_ni","kj_san","kj_juu",
          "kj_moku","kj_ji","kj_yaku","kj_sha","kj_chuu","kj_hito","kj_yama","kj_kawa"}
\* The kanji numerals of the chapter-marker pattern
KanjiNumerals == {"kj_ichi","kj_ni","kj_san","kj_juu"}
\* The chapter counters of the chapter-marker pattern: shou, wa, setsu
ChapterCounters == {"kj_shou","kj_wa","kj_setsu"}
\* U+30A0..U+30FF
Katakana == {"ka_a","ka_ka","ka_sa"}
\* U+3040..U+309F
Hiragana == {"hi_no","hi_wa","hi_ga","hi_wo","hi_ni"}

\* str.isspace / regex \s
Whitespace == {" ", "\n", "\t"}
\* the characters c with c.isalpha()
AlphaChars == LowerLetters \cup UpperLetters \cup Kanji \cup Katakana \cup Hiragana
\* regex \d on str (a Unicode decimal digit), also the characters with c.isdigit()
DigitChars == AsciiDigits \cup FullwidthDigits
\* regex \w on str: alphanumeric or underscore
WChars == AlphaChars \cup DigitChars \cup {"_"}
\* str.isupper of a one-character string
IsUpper(c) == c \in UpperLetters
\* str.isalpha of a one-character string
IsAlpha(c) == c \in AlphaChars
\* regex \s
IsS(c) == c \in Whitespace

LowerOf == [c \in UpperLetters |->
              IF c \in AsciiUpper
              THEN AsciiLowerSeq[CHOOSE i \in DOMAIN AsciiUpperSeq : AsciiUpperSeq[i] = c]
              ELSE AccentLowerSeq[CHOOSE i \in DOMAIN AccentUpperSeq : AccentUpperSeq[i] = c]]
UpperOf == [c \in LowerLetters |->
              IF c \in AsciiLower
              THEN AsciiUpperSeq[CHOOSE i \in DOMAIN AsciiLowerSeq : AsciiLowerSeq[i] = c]
              ELSE AccentUpperSeq[CHOOSE i \in DOMAIN AccentLowerSeq : AccentLowerSeq[i] = c]]
\* str.lower / str.upper of one character
LowerChar(c) == IF c \in UpperLetters THEN LowerOf[c] ELSE c
UpperChar(c) == IF c \in LowerLetters THEN UpperOf[c] ELSE c
\* re.IGNORECASE comparison of a text character with a pattern letter
EqIgnoreCase(c, p) == LowerChar(c) = LowerChar(p)

(***************************************************************************)
(* str helpers                                                             *)
(***************************************************************************)
Min(S) == CHOOSE k \in S : \A j \in S : k <= j
Max(S) == CHOOSE k \in S : \A j \in S : k >= j

\* str.lower
Lower(s) == [i \in 1..Len(s) |-> LowerChar(s[i])]

\* index of the first character at or after i that is in C (Len+1 if none)
FindIn(s, i, C) ==
  CHOOSE k \in i..(Len(s) + 1) :
    (k = Len(s) + 1 \/ s[k] \in C) /\ \A j \in i..(k - 1) : s[j] \notin C
\* index of the first character at or after i that is not in C (Len+1 if none):
\* the end of a greedy run [C]* started at i
SkipIn(s, i, C) ==
  CHOOSE k \in i..(Len(s) + 1) :
    (k = Len(s) + 1 \/ s[k] \notin C) /\ \A j \in i..(k - 1) : s[j] \in C
\* the end of a greedy \s* started at i
SkipS(s, i) == SkipIn(s, i, Whitespace)

\* str.strip()
Strip(s) ==
  LET a == SkipS(s, 1)
      b == CHOOSE k \in 0..Len(s) :
             (k = 0 \/ ~IsS(s[k])) /\ \A j \in (k + 1)..Len(s) : IsS(s[j])
  IN SubSeq(s, a, b)

\* the set reached from S by applying f any number of times, computed by
\* repeated squaring of f
RECURSIVE Orbit(_, _)
Orbit(S, f) ==
  LET T == S \cup {f[x] : x \in S} IN
  IF T = S THEN S ELSE Orbit(T, [x \in DOMAIN f |-> f[f[x]]])

\* concatenation of the sequences E[lo], ..., E[hi]
RECURSIVE Flat(_, _, _)
Flat(E, lo, hi) ==
  IF lo > hi THEN <<>>
  ELSE IF lo = hi THEN E[lo]
  ELSE LET mid == (lo + hi) \div 2 IN Flat(E, lo, mid) \o Flat(E, mid + 1, hi)

\* re.sub(pattern, repl, s): the left-to-right scan over non-overlapping
\* matches.  M maps every index at which the pattern matches to the pair
\* <<index after the match, replacement text>>; the scan takes the leftmost
\* match at or after i, copies the text before it, emits the replacement and
\* continues after the match.
Rewrite(s, i, M) ==
  LET D == {k \in DOMAIN M : k >= i}
      stop == Len(s) + 1
      first(j) == LET later == {k \in D : k >= j} IN
                  IF later = {} THEN stop ELSE Min(later)
      following == [k \in D \cup {stop} |-> IF k = stop THEN stop ELSE first(M[k][1])]
      taken == Orbit({first(i)}, following) \ {stop}
      matched == UNION {k..(M[k][1] - 1) : k \in taken}
      emitted == [p \in i..Len(s) |->
                    IF p \in taken THEN M[p][2]
                    ELSE IF p \in matched THEN <<>>
                    ELSE <<s[p]>>]
  IN IF D = {} THEN SubSeq(s, i, Len(s)) ELSE Flat(emitted, i, Len(s))

\* re.sub(r'\s+', ' ', s): every maximal whitespace run becomes one space
CollapseWhitespace(s) ==
  LET kept == SelectSeq([k \in 1..Len(s) |-> k],
                        LAMBDA k : ~IsS(s[k]) \/ k = 1 \/ ~IsS(s[k - 1]))
  IN [j \in 1..Len(kept) |-> IF IsS(s[kept[j]]) THEN " " ELSE s[kept[j]]]

\* the literal p occurs in s at index i
StartsAt(s, i, p) ==
  /\ i + Len(p) - 1 <= Len(s)
  /\ \A k \in 1..Len(p) : s[i + k - 1] = p[k]
\* the same under re.IGNORECASE
StartsAtIgnoreCase(s, i, p) ==
  /\ i + Len(p) - 1 <= Len(s)
  /\ \A k \in 1..Len(p) : EqIgnoreCase(s[i + k - 1], p[k])

\* re.sub(r'[...]', '', s) for a character set C
RemoveChars(s, C) == SelectSeq(s, LAMBDA c : c \notin C)

\* the indices at which a maximal run of characters of C starts
RunStarts(s, C) == {a \in 1..Len(s) : s[a] \in C /\ (a = 1 \/ s[a - 1] \notin C)}

\* len(s.split()): the number of maximal runs of non-whitespace
SplitCount(s) == Cardinality({a \in 1..Len(s) : ~IsS(s[a]) /\ (a = 1 \/ IsS(s[a - 1]))})

(***************************************************************************)
(* Configuration                                                            *)
(***************************************************************************)
\* catalan_parser.ParserConfig
min_words == 7
max_words == 70
min_sentence_length == 40
max_sentence_length == 400
\* italian_parser module constants
MIN_WORDS == 7
MAX_WORDS == 70
MIN_CHARS == 40
MAX_CHARS == 500
\* the default of the min_word_length parameter of both word counters
default_min_word_length == 5
\* japan_parser.clean_and_split_sentences_jp: the literal thresholds
jp_min_chars == 35
jp_max_chars == 50
jp_min_words == 10
jp_max_words == 70

\* count_catalan_words: function_words
function_words ==
  {<<"e","l">>, <<"l","a">>, <<"e","l","s">>, <<"l","e","s">>, <<"u","n">>, <<"u","n","a">>,
   <<"u","n","s">>, <<"u","n","e","s">>, <<"l","o">>, <<"l","o","s">>, <<"s","a">>, <<"s","e","s">>,
   <<"a">>, <<"d","e">>, <<"e","n">>, <<"p","e","r">>, <<"a","m","b">>, <<"s","e","n","s","e">>,
   <<"s","o","b","r","e">>, <<"s","o","t","a">>, <<"d","a","v","a","n","t">>,
   <<"d","a","r","r","e","r","e">>, <<"e","n","t","r","e">>, <<"f","i","n","s">>, <<"d","e","s">>,
   <<"d","u","r","a","n","t">>, <<"m","i","t","j","a","n","ccedil","a","n","t">>,
   <<"s","e","g","o","n","s">>, <<"v","e","r","s">>, <<"c","a","p">>, <<"c","o","n","t","r","a">>,
   <<"i">>, <<"o">>, <<"n","i">>, <<"q","u","e">>, <<"c","o","m">>, <<"s","i">>,
   <<"p","e","r","q","u","egrave">>, <<"c","a","r">>, <<"d","o","n","c","s">>, <<"j","a">>,
   <<"t","a","n","m","a","t","e","i","x">>, <<"p","e","r","ograve">>, <<"m","e","s">>,
   <<"s","i","n","oacute">>, <<"m","a","l","g","r","a","t">>, <<"e","n","c","a","r","a">>,
   <<"m","e","n","t","r","e">>, <<"q","u","a","n">>, <<"e","m">>, <<"e","t">>, <<"e","s">>,
   <<"e","n","s">>, <<"u","s">>, <<"s","e">>, <<"m","e">>, <<"t","e">>, <<"l","i">>, <<"h","o">>,
   <<"m","'">>, <<"t","'">>, <<"s","'">>, <<"n","'">>, <<"l","'">>, <<"h","i">>, <<"n","e">>,
   <<"h","a">>, <<"eacute","s">>, <<"s","o","n">>, <<"e","r","a">>, <<"e","r","e","n">>,
   <<"m","'","h","i">>, <<"t","'","h","i">>, <<"s","'","h","i">>, <<"n","'","h","i">>,
   <<"l","'","h","i">>, <<"s","o","m">>, <<"s","o","u">>, <<"s","oacute","n">>}
\* count_catalan_words: short_but_meaningful
short_but_meaningful ==
  {<<"s","i">>, <<"n","o">>, <<"v","a">>, <<"v","eacute">>, <<"d","o","s">>, <<"t","r","e","s">>,
   <<"q","u","a","t","r","e">>, <<"c","i","n","c">>}
\* italian_parser.ITALIAN_FUNCTION_WORDS
ITALIAN_FUNCTION_WORDS ==
  {<<"i","l">>, <<"l","o">>, <<"l","a">>, <<"i">>, <<"g","l","i">>, <<"l","e">>, <<"u","n">>,
   <<"u","n","o">>, <<"u","n","a">>, <<"u","n","'">>, <<"d","i">>, <<"a">>, <<"d","a">>,
   <<"i","n">>, <<"c","o","n">>, <<"s","u">>, <<"p","e","r">>, <<"t","r","a">>, <<"f","r","a">>,
   <<"e">>, <<"o">>, <<"m","a">>, <<"s","e">>, <<"p","e","r","c","h","eacute">>, <<"c","h","e">>,
   <<"c","o","m","e">>, <<"q","u","a","n","d","o">>, <<"d","o","v","e">>, <<"m","i">>, <<"t","i">>,
   <<"c","i">>, <<"v","i">>, <<"l","i">>, <<"n","e">>, <<"m","'">>, <<"t","'">>, <<"c","'">>,
   <<"v","'">>, <<"l","'">>, <<"egrave">>, <<"s","o","n","o">>, <<"e","r","a">>,
   <<"e","r","a","n","o">>, <<"h","a">>, <<"h","a","n","n","o">>, <<"a","v","e","v","a">>}
\* count_italian_words: short_but_meaningful
italian_short_but_meaningful ==
  {<<"s","igrave">>, <<"n","o">>, <<"v","a">>, <<"v","agrave">>, <<"t","r","e">>, <<"d","u","e">>,
   <<"q","u","i">>, <<"l","igrave">>}

(***************************************************************************)
(* Word counters                                                            *)
(***************************************************************************)
\* the class [\wA-grave..y-diaeresis] of the word pattern
WordPatternChars == WChars \cup RangeLatin1Letters

\* re.findall(r'\b[\w..]+\b', sentence) followed by the filter loop: the
\* number of maximal runs of word characters that are not function words
\* (fw) and are not shorter than minlen (unless in the exception list sbm)
CountWords(s, fw, sbm, minlen) ==
  Cardinality({a \in RunStarts(s, WordPatternChars) :
      LET word == SubSeq(s, a, SkipIn(s, a, WordPatternChars) - 1)
          word_lower == Lower(word)
      IN ~(\/ word_lower \in fw
           \/ (Len(word) < minlen /\ word_lower \notin sbm))})

count_catalan_words(sentence, min_word_length) ==
  CountWords(sentence, function_words, short_but_meaningful, min_word_length)

count_italian_words(sentence, min_word_length) ==
  CountWords(sentence, ITALIAN_FUNCTION_WORDS, italian_short_but_meaningful,
                 min_word_length)

(***************************************************************************)
(* Content hash                                                             *)
(***************************************************************************)
\* get_sentence_hash with the call to lower() left out
get_sentence_hash_case_sensitive(sentence) == CollapseWhitespace(Strip(sentence))

\* get_sentence_hash: md5 of the canonical key.  md5 is taken to be
\* injective, so the digest is represented by the key it is computed from:
\* sentence.lower().strip() with whitespace runs collapsed to one space.
get_sentence_hash(sentence) == CollapseWhitespace(Strip(Lower(sentence)))

(***************************************************************************)
(* Validity gates                                                           *)
(***************************************************************************)
\* the digit rule left out of the gates
HasDigit_never(s) == FALSE

\* re.search(r'\d', sentence)
HasDigit(s) == \E i \in 1..Len(s) : s[i] \in DigitChars

\* the characters listed between the brackets of
\* ParserConfig.allowed_special_chars
ca_allowed_special_chars ==
  WChars \cup Whitespace \cup {",", ".", "!", "?", ";", "'", "\""}
  \cup {"agrave","egrave","eacute","iacute","iuml","ograve","oacute","uacute","uuml","ccedil",
        "Agrave","Egrave","Eacute","Iacute","Iuml","Ograve","Oacute","Uacute","Uuml","Ccedil"}
  \cup {"middot", "iquest", "iexcl"}
\* the characters listed between the brackets of
\* italian_parser.ALLOWED_SPECIAL_CHARS
it_allowed_special_chars ==
  WChars \cup Whitespace \cup {",", ".", "!", "?", ";", ":", "'", "\""}
  \cup {"agrave","egrave","eacute","igrave","iacute","icirc","ograve","oacute","ugrave","uacute",
        "Agrave","Egrave","Eacute","Igrave","Iacute","Icirc","Ograve","Oacute","Ugrave","Uacute"}
  \cup {"-"}
\* allowed_special_chars is itself a bracketed class; pasted into
\* f'[^{...}]' it gives the pattern [^[\w\s,.!?;'"...] followed by a literal
\* "]": the members of that negated class are "[" and the listed characters
ca_class_members == {"["} \cup ca_allowed_special_chars
it_class_members == {"["} \cup it_allowed_special_chars

\* re.search(f'[^{allowed}]', sentence): a character outside the class
\* members immediately followed by "]"
BadCharsSearch(s, members) ==
  \E i \in 1..(Len(s) - 1) : s[i] \notin members /\ s[i + 1] = "]"

\* BookParser.is_valid_sentence
ca_is_valid_sentence(sentence) ==
  IF Len(sentence) < min_sentence_length THEN FALSE
  ELSE IF Len(sentence) > max_sentence_length THEN FALSE
  ELSE IF HasDigit(sentence) THEN FALSE
  ELSE IF BadCharsSearch(sentence, ca_class_members) THEN FALSE
  ELSE LET words == count_catalan_words(sentence, min_words) IN
       IF words < min_words \/ words > max_words THEN FALSE
       ELSE TRUE

\* is_valid_sentence with the digit rule tested before the length rules
it_is_valid_sentence_digits_first(sentence, hashes) ==
  IF HasDigit(sentence) THEN <<FALSE, "has_digits">>
  ELSE IF Len(sentence) < MIN_CHARS THEN <<FALSE, "too_short">>
  ELSE IF Len(sentence) > MAX_CHARS THEN <<FALSE, "too_long">>
  ELSE IF BadCharsSearch(sentence, it_class_members) THEN <<FALSE, "bad_chars">>
  ELSE LET words == count_italian_words(sentence, default_min_word_length) IN
       IF words < MIN_WORDS \/ words > MAX_WORDS THEN <<FALSE, "word_count">>
       ELSE IF get_sentence_hash(sentence) \in hashes THEN <<FALSE, "duplicate">>
       ELSE <<TRUE, "">>

\* ItalianBookParser.is_valid_sentence: the pair (is_valid, reason)
it_is_valid_sentence(sentence, hashes) ==
  IF Len(sentence) < MIN_CHARS THEN <<FALSE, "too_short">>
  ELSE IF Len(sentence) > MAX_CHARS THEN <<FALSE, "too_long">>
  ELSE IF HasDigit(sentence) THEN <<FALSE, "has_digits">>
  ELSE IF BadCharsSearch(sentence, it_class_members) THEN <<FALSE, "bad_chars">>
  ELSE LET words == count_italian_words(sentence, default_min_word_length) IN
       IF words < MIN_WORDS \/ words > MAX_WORDS THEN <<FALSE, "word_count">>
       ELSE IF get_sentence_hash(sentence) \in hashes THEN <<FALSE, "duplicate">>
       ELSE <<TRUE, "">>

(***************************************************************************)
(* Rewrite rules of the cleaners.  Each operator is re.sub for one pattern:  *)
(* the text is scanned from the left, at each index the pattern either       *)
(* matches (the replacement is emitted and the scan continues after the      *)
(* match) or the character is copied.                                        *)
(***************************************************************************)
Punct == {",", ".", "!", "?", ";", ":"}
Terminal == {".", "!", "?"}
Dashes == {"-", "mdash", "ndash"}
\* the class ["<<>>""...] of the quote rule
QuoteChars == {"\"", "laquo", "raquo", "ldquo", "rdquo", "bdquo", "ldquor_rev"}
\* the class [*#@$%&_+=|~<>/\(c)(R)(TM).. ] of the special-character rule
SpecialChars == {"*", "#", "@", "$", "%", "&", "_", "+", "=", "|", "~", "<", ">", "/", "\\",
                 "copy", "reg", "trade", "bull", "middot"}
\* [IVXLCDM\d] under re.IGNORECASE
RomanOrDigit == {"I","V","X","L","C","D","M","i","v","x","l","c","d","m"} \cup DigitChars

\* re.sub(r'^CAP[II]TOL?\s+[IVXLCDM\d]+[.:]?\s*', '', s, flags=re.IGNORECASE)
StripCapitol(s) ==
  IF /\ StartsAtIgnoreCase(s, 1, <<"C","A","P">>)
     /\ Len(s) >= 4 /\ s[4] \in {"I", "i", "Iacute", "iacute"}
     /\ StartsAtIgnoreCase(s, 5, <<"T","O">>)
  THEN LET j == IF Len(s) >= 7 /\ s[7] \in {"L", "l"} THEN 8 ELSE 7
           k == SkipS(s, j)
           m == SkipIn(s, k, RomanOrDigit)
           n == IF m <= Len(s) /\ s[m] \in {".", ":"} THEN m + 1 ELSE m
           e == SkipS(s, n)
       IN IF k > j /\ m > k THEN SubSeq(s, e, Len(s)) ELSE s
  ELSE s

\* the indices of s
Idx(s) == 1..Len(s)

\* re.sub(r'\s*,\s*<word>[.,]?\s*', ' ', s) (opt: the pattern has the [.,]? part)
CommaWordEnd(s, i, word, opt) ==
  LET m == SkipS(s, SkipS(s, i) + 1) + Len(word)
      n == IF opt /\ m <= Len(s) /\ s[m] \in {".", ","} THEN m + 1 ELSE m
  IN SkipS(s, n)
CommaWordAt(s, i, word) ==
  LET j == SkipS(s, i) IN
  j <= Len(s) /\ s[j] = "," /\ StartsAt(s, SkipS(s, j + 1), word)
SubCommaWord(s, word, opt) ==
  Rewrite(s, 1, [i \in {i \in Idx(s) : CommaWordAt(s, i, word)} |->
                   <<CommaWordEnd(s, i, word, opt), <<" ">> >>])

\* re.sub(r'_([^_]+)_', r'\1', s)
ItalicsAt(s, i) ==
  LET c == FindIn(s, i + 1, {"_"}) IN s[i] = "_" /\ c > i + 1 /\ c <= Len(s)
SubItalics(s) ==
  Rewrite(s, 1, [i \in {i \in Idx(s) : ItalicsAt(s, i)} |->
                   LET c == FindIn(s, i + 1, {"_"}) IN <<c + 1, SubSeq(s, i + 1, c - 1)>>])

\* re.sub(r'\s*[---]\s*', ', ', s)
DashAt(s, i) == LET j == SkipS(s, i) IN j <= Len(s) /\ s[j] \in Dashes
SubDashes(s) ==
  Rewrite(s, 1, [i \in {i \in Idx(s) : DashAt(s, i)} |->
                   <<SkipS(s, SkipS(s, i) + 1), <<",", " ">> >>])

\* re.sub(r'\([^)]*\)', '', s) with open = "(" and close = ")", and
\* re.sub(r'\[[^\]]*\]', '', s) with open = "[" and close = "]"
SubBracketed(s, open, close) ==
  Rewrite(s, 1, [i \in {i \in Idx(s) : s[i] = open /\ FindIn(s, i + 1, {close}) <= Len(s)} |->
                   <<FindIn(s, i + 1, {close}) + 1, <<>> >>])

\* re.sub(r'\.{2,}', '.', s)
SubEllipsis(s) ==
  Rewrite(s, 1, [i \in {i \in Idx(s) : s[i] = "." /\ i < Len(s) /\ s[i + 1] = "."} |->
                   <<SkipIn(s, i, {"."}), <<".">> >>])

\* re.sub(r'\s+([,.!?;:])', r'\1', s)
SpaceBeforePunctAt(s, i) ==
  LET j == SkipS(s, i) IN IsS(s[i]) /\ j <= Len(s) /\ s[j] \in Punct
SubSpaceBeforePunct(s) ==
  Rewrite(s, 1, [i \in {i \in Idx(s) : SpaceBeforePunctAt(s, i)} |->
                   LET j == SkipS(s, i) IN <<j + 1, <<s[j]>> >>])

\* re.sub(r'([,.!?;:])(?!\s|$)', r'\1 ', s)
SubSpaceAfterPunct(s) ==
  Rewrite(s, 1, [i \in {i \in Idx(s) : s[i] \in Punct /\ i < Len(s) /\ ~IsS(s[i + 1])} |->
                   <<i + 1, <<s[i], " ">> >>])

\* re.sub(<literal>, '', s, flags=re.IGNORECASE)
SubLiteralIgnoreCase(s, lit) ==
  Rewrite(s, 1, [i \in {i \in Idx(s) : StartsAtIgnoreCase(s, i, lit)} |->
                   <<i + Len(lit), <<>> >>])

\* re.sub(r'CAPITOLO\s+\d+', '', s, flags=re.IGNORECASE)
CapitoloEnd(s, i) == SkipIn(s, SkipS(s, i + 8), DigitChars)
CapitoloAt(s, i) ==
  /\ StartsAtIgnoreCase(s, i, <<"C","A","P","I","T","O","L","O">>)
  /\ SkipS(s, i + 8) > i + 8
  /\ CapitoloEnd(s, i) > SkipS(s, i + 8)
SubCapitolo(s) ==
  Rewrite(s, 1, [i \in {i \in Idx(s) : CapitoloAt(s, i)} |-> <<CapitoloEnd(s, i), <<>> >>])

\* re.sub(r'(\b[<first>])([A-ZA-grave..y-diaeresis])', r'\1 \2', s): a letter of
\* the set first at a word boundary, followed by a capital or accented letter
GluedAt(s, i, first) ==
  /\ s[i] \in first
  /\ (i = 1 \/ s[i - 1] \notin WChars)
  /\ i < Len(s) /\ s[i + 1] \in RangeAZ \cup RangeLatin1Letters
SubGlued(s, first) ==
  Rewrite(s, 1, [i \in {i \in Idx(s) : GluedAt(s, i, first)} |->
                   <<i + 2, <<s[i], " ", s[i + 1]>> >>])

\* "if sentence and not sentence[0].isupper(): for i, char in enumerate(..):
\*  if char.isalpha(): sentence = sentence[i].upper() + sentence[i+1:]; break"
Capitalize(s) ==
  IF s # <<>> /\ ~IsUpper(s[1])
  THEN LET i == FindIn(s, 1, AlphaChars) IN
       IF i <= Len(s) THEN <<UpperChar(s[i])>> \o SubSeq(s, i + 1, Len(s)) ELSE s
  ELSE s

\* the terminal-mark step left out of the cleaners
EnsureTerminal_absent(s) == s

\* "if sentence and not sentence[-1] in '.!?': sentence += '.'"
EnsureTerminal(s) ==
  IF s # <<>> /\ s[Len(s)] \notin Terminal THEN Append(s, ".") ELSE s

\* the rules shared, in this order, by both cleaners: italics, quotes, dashes,
\* brackets, special characters, ellipsis, whitespace, punctuation spacing,
\* capital letter, terminal mark
CommonRewrites(s) ==
  LET s1 == SubItalics(s)
      s2 == RemoveChars(s1, QuoteChars)
      s3 == SubDashes(s2)
      s4 == SubBracketed(s3, "(", ")")
      s5 == SubBracketed(s4, "[", "]")
      s6 == RemoveChars(s5, SpecialChars)
      s7 == SubEllipsis(s6)
      s8 == Strip(CollapseWhitespace(s7))
      s9 == SubSpaceBeforePunct(s8)
      s10 == SubSpaceAfterPunct(s9)
  IN EnsureTerminal(Capitalize(s10))

\* BookParser.clean_sentence (patterns_to_fix is defined and never applied)
ca_clean_sentence(sentence) ==
  LET s1 == StripCapitol(sentence)
      s2 == SubCommaWord(s1, <<"s","e">>, TRUE)
      s3 == SubCommaWord(s2, <<"l","i">>, FALSE)
      s4 == SubCommaWord(s3, <<"n","h","i">>, FALSE)
      s5 == SubCommaWord(s4, <<"a","d">>, FALSE)
      s6 == Strip(CollapseWhitespace(s5))
      s7 == CommonRewrites(s6)
  IN IF SplitCount(s7) < 3 THEN <<>> ELSE s7

\* ItalianBookParser.clean_sentence
it_clean_sentence(sentence) ==
  LET s1 == SubCapitolo(SubCapitolo(sentence))
      s2 == SubLiteralIgnoreCase(s1, <<"I","N","T","R","O","D","U","Z","I","O","N","E">>)
      s3 == SubLiteralIgnoreCase(s2, <<"P","R","O","L","O","G","O">>)
      s4 == SubLiteralIgnoreCase(s3, <<"P","R","E","F","A","C","E">>)
      s5 == SubLiteralIgnoreCase(s4, <<"I","N","D","I","C","E">>)
      s6 == SubGlued(s5, {"l","L","d","D","n","N","m","M","s","S"})
      s7 == SubGlued(s6, {"a","A","e","E","i","I","o","O","u","U"})
  IN CommonRewrites(s7)

(***************************************************************************)
(* Normalizer and segmenter (Catalan and Italian)                            *)
(***************************************************************************)
\* normalize_text: re.sub(r'\n+', ' ', text), re.sub(r'\s+', ' ', text), strip
normalize_text(text) ==
  LET t1 == Rewrite(text, 1, [k \in {k \in Idx(text) : text[k] = "\n"} |->
                                <<SkipIn(text, k, {"\n"}), <<" ">> >>])
  IN Strip(CollapseWhitespace(t1))

\* the class [\d\s.,;:!?] of the digit-only-line rule
DigitLineChars == DigitChars \cup Whitespace \cup {".", ",", ";", ":", "!", "?"}

\* re.sub(r'^\s*[\d\s.,;:!?]*$', '', text, flags=re.MULTILINE): at a line
\* start i the greedy run of DigitLineChars must end at the end of the text or
\* be cut back to end just before a newline; the index after the match (i when
\* only the empty match is possible, 0 when there is none)
DigitLineEnd(s, i) ==
  LET e == SkipIn(s, i, DigitLineChars)
      nl == {q \in i..(e - 1) : s[q] = "\n"}
  IN IF e > Len(s) THEN e
     ELSE IF nl # {} THEN Max(nl)
     ELSE 0
SubDigitLines(s) ==
  Rewrite(s, 1, [i \in {i \in Idx(s) : (i = 1 \/ s[i - 1] = "\n") /\ DigitLineEnd(s, i) > i} |->
                   <<DigitLineEnd(s, i), <<>> >>])

\* re.sub(r'\[\d+\]', '', text)
NumberedNoteAt(s, i) ==
  LET e == SkipIn(s, i + 1, DigitChars) IN
  s[i] = "[" /\ e > i + 1 /\ e <= Len(s) /\ s[e] = "]"
SubNumberedNotes(s) ==
  Rewrite(s, 1, [i \in {i \in Idx(s) : NumberedNoteAt(s, i)} |->
                   <<SkipIn(s, i + 1, DigitChars) + 1, <<>> >>])

\* remove_metadata (the same function in both parsers)
remove_metadata(text) ==
  SubDigitLines(SubNumberedNotes(SubBracketed(SubBracketed(text, "(", ")"), "[", "]")))

\* re.split(r'[<D>]+', text): the pieces between the maximal runs of delimiters
RECURSIVE SplitFrom(_, _, _)
SplitFrom(s, i, D) ==
  LET a == FindIn(s, i, D) IN
  IF a > Len(s) THEN <<SubSeq(s, i, Len(s))>>
  ELSE <<SubSeq(s, i, a - 1)>> \o SplitFrom(s, SkipIn(s, a, D), D)

\* ParserConfig.sentence_delimiters and italian_parser.SENTENCE_DELIMITERS
ca_sentence_delimiters == {".", "!", "?", ";"}
it_sentence_delimiters == {".", "!", "?", ";", "hellip"}

\* BookParser.split_into_sentences: the pieces as re.split returns them
ca_split_into_sentences(text) == SplitFrom(text, 1, ca_sentence_delimiters)

\* italian_parser.split_into_sentences: "[s.strip() for s in sentences if s.strip()]"
StripAll(pieces) == [k \in DOMAIN pieces |-> Strip(pieces[k])]
it_split_into_sentences(text) ==
  StripAll(SelectSeq(SplitFrom(text, 1, it_sentence_delimiters), LAMBDA q : Strip(q) # <<>>))

(***************************************************************************)
(* Japanese parser                                                           *)
(***************************************************************************)
\* the class of the corner brackets and quotes removed by clean_sentence_jp
JpQuoteChars == {"jp_lq", "jp_rq", "jp_ldq", "jp_rdq", "jp_lab", "jp_rab",
                 "jp_llb", "jp_rlb", "jp_lts", "jp_rts"}
\* the class [#@$%&*_+=|~<>/\\] of clean_sentence_jp
JpSpecialChars == {"#", "@", "$", "%", "&", "*", "_", "+", "=", "|", "~", "<", ">", "/", "\\"}
RomanLetters == {"I","V","X","L","C","D","M","i","v","x","l","c","d","m"}
\* the class [kanji numerals \d] of the chapter-marker pattern
ChapterNumberChars == KanjiNumerals \cup DigitChars
\* the sentence endings of clean_and_split_sentences_jp: maru, fullwidth ! ?, . ! ?
jp_sentence_endings == {"jp_maru", "fw_excl", "fw_quest", ".", "!", "?"}

\* the pattern dai \s* [numerals]+ \s* [shou wa setsu] \s* at index i: the index
\* after the match, 0 when it does not match
ChapterMarkerEnd(s, i) ==
  LET a == SkipS(s, i + 1)
      b == SkipIn(s, a, ChapterNumberChars)
      c == SkipS(s, b)
  IN IF i <= Len(s) /\ s[i] = "kj_dai" /\ b > a /\ c <= Len(s) /\ s[c] \in ChapterCounters
     THEN SkipS(s, c + 1) ELSE 0

\* re.sub(r'^[IVXLCDMivxlcdm]+\.\s*', '', sent)
StripRomanHeading(s) ==
  LET e == SkipIn(s, 1, RomanLetters) IN
  IF e > 1 /\ e <= Len(s) /\ s[e] = "." THEN SubSeq(s, SkipS(s, e + 1), Len(s)) ELSE s

\* re.sub(r'^dai...', '', sent): the chapter marker at the start
StripChapterMarker(s) ==
  IF ChapterMarkerEnd(s, 1) > 0 THEN SubSeq(s, ChapterMarkerEnd(s, 1), Len(s)) ELSE s

\* re.sub(r'dai...', '', sent): the chapter marker anywhere
SubChapterMarkers(s) ==
  Rewrite(s, 1, [i \in {i \in Idx(s) : ChapterMarkerEnd(s, i) > 0} |->
                   <<ChapterMarkerEnd(s, i), <<>> >>])

\* re.sub(r'(?<=[^\s])\.(?=[^\s])', '', sent)
SubInnerDots(s) ==
  Rewrite(s, 1, [i \in {i \in Idx(s) : /\ s[i] = "." /\ i > 1 /\ i < Len(s)
                                      /\ ~IsS(s[i - 1]) /\ ~IsS(s[i + 1])} |->
                   <<i + 1, <<>> >>])

\* clean_sentence_jp; None is represented by the empty string (the caller
\* tests "if not sent", which treats both alike)
clean_sentence_jp(sent) ==
  IF Strip(sent) = <<>> THEN <<>>
  ELSE LET s1 == RemoveChars(sent, JpQuoteChars)
           s2 == SubBracketed(s1, "(", ")")
           s3 == SubBracketed(s2, "[", "]")
           s4 == RemoveChars(s3, JpSpecialChars)
           s5 == StripRomanHeading(s4)
           s6 == StripChapterMarker(s5)
           s7 == Strip(CollapseWhitespace(s6))
           s8 == SubInnerDots(s7)
       IN Strip(s8)

\* count_japanese_words: the type of a character
CharType(c) ==
  IF c \in Kanji THEN "kanji"
  ELSE IF c \in Katakana THEN "kana"
  ELSE IF c \in Hiragana THEN "hiragana"
  ELSE IF IsAlpha(c) THEN "latin"
  ELSE IF c \in DigitChars THEN "digit"
  ELSE "other"

\* the index after the token that starts at a: the first change of type
TokenEnd(s, a) ==
  LET ch == {k \in a..Len(s) : CharType(s[k]) # CharType(s[a])} IN
  IF ch = {} THEN Len(s) + 1 ELSE Min(ch)

\* count_japanese_words: the tokens are the maximal runs of one type; a token
\* counts when one of its characters is a kanji, a katakana or c.isalpha()
count_japanese_words(text) ==
  Cardinality({a \in Idx(text) :
      /\ (a = 1 \/ CharType(text[a - 1]) # CharType(text[a]))
      /\ \E k \in a..(TokenEnd(text, a) - 1) :
            text[k] \in Kanji \/ text[k] \in Katakana \/ IsAlpha(text[k])})

\* step 1 of clean_and_split_sentences_jp: the text from the first match of
\* the first start pattern that occurs (mokuji; dai \s* [1] \s* shou; dai ichi shou)
Chapter1At(s, i) ==
  LET a == SkipS(s, i + 1) IN
  /\ s[i] = "kj_dai" /\ a <= Len(s) /\ s[a] \in {"fw_1", "1"}
  /\ SkipS(s, a + 1) <= Len(s) /\ s[SkipS(s, a + 1)] = "kj_shou"
FromFirst(s, hits) == SubSeq(s, Min(hits), Len(s))
CutToStart(text) ==
  LET m1 == {i \in Idx(text) : StartsAt(text, i, <<"kj_moku", "kj_ji">>)}
      m2 == {i \in Idx(text) : Chapter1At(text, i)}
      m3 == {i \in Idx(text) : StartsAt(text, i, <<"kj_dai", "kj_ichi", "kj_shou">>)}
  IN IF m1 # {} THEN FromFirst(text, m1)
     ELSE IF m2 # {} THEN FromFirst(text, m2)
     ELSE IF m3 # {} THEN FromFirst(text, m3)
     ELSE text

\* re.sub(r'yaku sha chuu.*', '', text, flags=re.DOTALL): everything from the
\* first translator's note on
CutTranslatorNotes(text) ==
  LET m == {i \in Idx(text) : StartsAt(text, i, <<"kj_yaku", "kj_sha", "kj_chuu">>)} IN
  IF m = {} THEN text ELSE SubSeq(text, 1, Min(m) - 1)

\* re.sub(r'chuu\s*\d+.*', '', text): a numbered note up to the end of its line
NoteAt(s, i) ==
  LET a == SkipS(s, i + 1) IN s[i] = "kj_chuu" /\ SkipIn(s, a, DigitChars) > a
SubNotes(s) ==
  Rewrite(s, 1, [i \in {i \in Idx(s) : NoteAt(s, i)} |->
                   <<FindIn(s, SkipIn(s, SkipS(s, i + 1), DigitChars), {"\n"}), <<>> >>])

\* text.replace(old, new) for one character
ReplaceChar(s, old, new) == [k \in Idx(s) |-> IF s[k] = old THEN new ELSE s[k]]

\* the loop body of clean_and_split_sentences_jp for one piece: the sentence
\* appended to valid_sentences, or the empty string when the piece is skipped
jp_sentence(piece) ==
  LET c == clean_sentence_jp(piece)
      sent == SubChapterMarkers(c)
      word_count == count_japanese_words(sent)
      first_char == sent[1]
      is_japanese == first_char \in Hiragana \cup Katakana \cup Kanji
      is_english == first_char \in AsciiUpper \cup AsciiLower
  IN IF c = <<>> THEN <<>>
     ELSE IF \E k \in Idx(sent) : sent[k] \in DigitChars THEN <<>>
     ELSE IF Len(sent) < jp_min_chars THEN <<>>
     ELSE IF Len(sent) > jp_max_chars THEN <<>>
     ELSE IF word_count < jp_min_words THEN <<>>
     ELSE IF word_count > jp_max_words THEN <<>>
     ELSE IF ~(is_japanese \/ is_english) THEN <<>>
     ELSE IF sent[Len(sent)] # "jp_maru" THEN Append(sent, "jp_maru")
     ELSE sent

\* the pieces clean_and_split_sentences_jp iterates over
jp_pieces(text) ==
  LET t1 == CutToStart(text)
      t2 == SubNotes(CutTranslatorNotes(t1))
      t3 == ReplaceChar(ReplaceChar(t2, "hellip", "."), "jp_hbar", "-")
  IN SplitFrom(t3, 1, jp_sentence_endings)

\* clean_and_split_sentences_jp
clean_and_split_sentences_jp(text) ==
  LET pieces == jp_pieces(text) IN
  SelectSeq([k \in DOMAIN pieces |-> jp_sentence(pieces[k])], LAMBDA q : q # <<>>)

(***************************************************************************)
(* The corpus: the book files the runs of the model read.  Each text is      *)
(* made of candidate sentences, one per case of the gates and cleaners.      *)
(***************************************************************************)
\* w * n
Repeat(w, n) == [k \in 1..(Len(w) * n) |-> w[((k - 1) % Len(w)) + 1]]

\* "aquestes paraules semblen perfectes despr{eacute}s aquella tempesta terrible"
ca_plain ==
  <<"a","q","u","e","s","t","e","s"," ","p","a","r","a","u","l","e","s"," ","s","e",
    "m","b","l","e","n"," ","p","e","r","f","e","c","t","e","s"," ","d","e","s","p",
    "r","eacute","s"," ","a","q","u","e","l","l","a"," ","t","e","m","p","e","s","t",
    "a"," ","t","e","r","r","i","b","l","e">>
\* "Aquestes PARAULES semblen perfectes despr{eacute}s aquella tempesta terrible"
ca_case ==
  <<"A","q","u","e","s","t","e","s"," ","P","A","R","A","U","L","E","S"," ","s","e",
    "m","b","l","e","n"," ","p","e","r","f","e","c","t","e","s"," ","d","e","s","p",
    "r","eacute","s"," ","a","q","u","e","l","l","a"," ","t","e","m","p","e","s","t",
    "a"," ","t","e","r","r","i","b","l","e">>
\* "aquestes paraules@ semblen perfectes despr{eacute}s aquella tempesta (terrible"
ca_symbols ==
  <<"a","q","u","e","s","t","e","s"," ","p","a","r","a","u","l","e","s","@"," ","s",
    "e","m","b","l","e","n"," ","p","e","r","f","e","c","t","e","s"," ","d","e","s",
    "p","r","eacute","s"," ","a","q","u","e","l","l","a"," ","t","e","m","p","e","s",
    "t","a"," ","(","t","e","r","r","i","b","l","e">>
\* "paraules'paraules'paraules'paraules'paraules'paraules'paraules"
ca_glued ==
  <<"p","a","r","a","u","l","e","s","'","p","a","r","a","u","l","e","s","'","p","a",
    "r","a","u","l","e","s","'","p","a","r","a","u","l","e","s","'","p","a","r","a",
    "u","l","e","s","'","p","a","r","a","u","l","e","s","'","p","a","r","a","u","l",
    "e","s">>
\* "aquestes paraules semblen perfectes despr{eacute}s 3 tempestes terribles"
ca_digit ==
  <<"a","q","u","e","s","t","e","s"," ","p","a","r","a","u","l","e","s"," ","s","e",
    "m","b","l","e","n"," ","p","e","r","f","e","c","t","e","s"," ","d","e","s","p",
    "r","eacute","s"," ","3"," ","t","e","m","p","e","s","t","e","s"," ","t","e","r",
    "r","i","b","l","e","s">>
\* "massa curt"
ca_short ==
  <<"m","a","s","s","a"," ","c","u","r","t">>
\* "aquestes paraules semblen perfectes despr{eacute}s aquella _______"
ca_underscore ==
  <<"a","q","u","e","s","t","e","s"," ","p","a","r","a","u","l","e","s"," ","s","e",
    "m","b","l","e","n"," ","p","e","r","f","e","c","t","e","s"," ","d","e","s","p",
    "r","eacute","s"," ","a","q","u","e","l","l","a"," ","_","_","_","_","_","_","_">>
\* "Cap{iacute}tol IV aquestes paraules semblen perfectes despr{eacute}s aquella tempesta terrible"
ca_chapter ==
  <<"C","a","p","iacute","t","o","l"," ","I","V"," ","a","q","u","e","s","t","e","s",
    " ","p","a","r","a","u","l","e","s"," ","s","e","m","b","l","e","n"," ","p","e",
    "r","f","e","c","t","e","s"," ","d","e","s","p","r","eacute","s"," ","a","q","u",
    "e","l","l","a"," ","t","e","m","p","e","s","t","a"," ","t","e","r","r","i","b",
    "l","e">>
\* "aquestes paraules@] semblen perfectes despr{eacute}s aquella tempesta terrible"
ca_bracket ==
  <<"a","q","u","e","s","t","e","s"," ","p","a","r","a","u","l","e","s","@","]"," ",
    "s","e","m","b","l","e","n"," ","p","e","r","f","e","c","t","e","s"," ","d","e",
    "s","p","r","eacute","s"," ","a","q","u","e","l","l","a"," ","t","e","m","p","e",
    "s","t","a"," ","t","e","r","r","i","b","l","e">>
\* "questa frase italiana contiene parole lunghe dentro ovunque"
it_plain ==
  <<"q","u","e","s","t","a"," ","f","r","a","s","e"," ","i","t","a","l","i","a","n",
    "a"," ","c","o","n","t","i","e","n","e"," ","p","a","r","o","l","e"," ","l","u",
    "n","g","h","e"," ","d","e","n","t","r","o"," ","o","v","u","n","q","u","e">>
\* "Questa FRASE italiana contiene parole lunghe dentro ovunque"
it_case ==
  <<"Q","u","e","s","t","a"," ","F","R","A","S","E"," ","i","t","a","l","i","a","n",
    "a"," ","c","o","n","t","i","e","n","e"," ","p","a","r","o","l","e"," ","l","u",
    "n","g","h","e"," ","d","e","n","t","r","o"," ","o","v","u","n","q","u","e">>
\* "indice prologo parole lunghe dentro questa frase italiana"
it_markers ==
  <<"i","n","d","i","c","e"," ","p","r","o","l","o","g","o"," ","p","a","r","o","l",
    "e"," ","l","u","n","g","h","e"," ","d","e","n","t","r","o"," ","q","u","e","s",
    "t","a"," ","f","r","a","s","e"," ","i","t","a","l","i","a","n","a">>
\* "questa@ frase( contiene* caratteri strani dentro ovunque parole"
it_symbols ==
  <<"q","u","e","s","t","a","@"," ","f","r","a","s","e","("," ","c","o","n","t","i",
    "e","n","e","*"," ","c","a","r","a","t","t","e","r","i"," ","s","t","r","a","n",
    "i"," ","d","e","n","t","r","o"," ","o","v","u","n","q","u","e"," ","p","a","r",
    "o","l","e">>
\* "_____ _____ _____ _____ _____ _____ _____"
it_underscores ==
  <<"_","_","_","_","_"," ","_","_","_","_","_"," ","_","_","_","_","_"," ","_","_",
    "_","_","_"," ","_","_","_","_","_"," ","_","_","_","_","_"," ","_","_","_","_",
    "_">>
\* "capitolo 3"
it_short_digit ==
  <<"c","a","p","i","t","o","l","o"," ","3">>
\* "questa frase italiana contiene 3 parole lunghe dentro ovunque"
it_digit ==
  <<"q","u","e","s","t","a"," ","f","r","a","s","e"," ","i","t","a","l","i","a","n",
    "a"," ","c","o","n","t","i","e","n","e"," ","3"," ","p","a","r","o","l","e"," ",
    "l","u","n","g","h","e"," ","d","e","n","t","r","o"," ","o","v","u","n","q","u",
    "e">>
\* "questa@] frase italiana contiene parole lunghe dentro ovunque"
it_bracket ==
  <<"q","u","e","s","t","a","@","]"," ","f","r","a","s","e"," ","i","t","a","l","i",
    "a","n","a"," ","c","o","n","t","i","e","n","e"," ","p","a","r","o","l","e"," ",
    "l","u","n","g","h","e"," ","d","e","n","t","r","o"," ","o","v","u","n","q","u",
    "e">>
\* "una frase con poche parole che non passa il filtro"
it_few_words ==
  <<"u","n","a"," ","f","r","a","s","e"," ","c","o","n"," ","p","o","c","h","e"," ",
    "p","a","r","o","l","e"," ","c","h","e"," ","n","o","n"," ","p","a","s","s","a",
    " ","i","l"," ","f","i","l","t","r","o">>
\* "{kj_hito}{hi_no}{kj_yama}{hi_wa}{kj_kawa}{hi_wo}"
jp_unit ==
  <<"kj_hito","hi_no","kj_yama","hi_wa","kj_kawa","hi_wo">>

\* candidates that are too long or have too many words
ca_many_words == Repeat(<<"n","o"," ">>, 71)
ca_long == Repeat(<<"p","a","r","a","u","l","e","s">>, 51)
it_long == Repeat(<<"p","a","r","o","l","e">>, 84)
\* Japanese candidates of 36, 50, 12 and 54 characters
jp_plain == Repeat(jp_unit, 6)
jp_fifty == Repeat(jp_unit, 8) \o <<"kj_hito","hi_no">>
jp_short == Repeat(jp_unit, 2)
jp_long == Repeat(jp_unit, 9)
jp_one_token == Repeat(<<"kj_hito">>, 36)
jp_digit == jp_plain \o <<"fw_1">>
jp_ascii_digit == jp_plain \o <<"3">>
jp_chapter == <<"kj_dai","kj_ni","kj_shou">> \o jp_plain
jp_dash == <<"jp_hbar">> \o jp_plain

\* a book file: its name, whether the path exists, whether its bytes decode
\* as UTF-8, and its text (read as UTF-8 when they do, as Latin-1 otherwise)
File(name, exists, utf8, text) ==
  [name |-> name, exists |-> exists, utf8 |-> utf8, text |-> text]

\* the files of each parser's book folder, in the order of their names
CaBooks ==
  << File("ca1", TRUE, TRUE, ca_plain \o <<".", " ">> \o ca_short \o <<"!", " ">>
                             \o ca_digit \o <<".">>),
     File("ca2", TRUE, TRUE, ca_case \o <<";", " ">> \o ca_symbols \o <<".", "\n">>
                             \o ca_glued \o <<".">>),
     File("ca3", TRUE, TRUE, ca_chapter \o <<"?", " ">> \o ca_underscore \o <<".">>),
     File("ca4", TRUE, TRUE, ca_bracket \o <<".", " ">> \o ca_many_words \o <<".">>
                             \o ca_long),
     File("ca5", FALSE, TRUE, <<>>),
     File("ca6", TRUE, FALSE, ca_plain \o <<".">>),
     File("ca7", TRUE, TRUE, <<"4", "2", "\n">> \o ca_plain \o <<".">>) >>
ItBooks ==
  << File("it1", TRUE, TRUE, it_plain \o <<".", " ">> \o it_short_digit \o <<"!", " ">>
                             \o it_digit \o <<".">>),
     File("it2", TRUE, TRUE, it_case \o <<";", " ">> \o it_symbols \o <<".", "\n">>
                             \o it_underscores \o <<".">>),
     File("it3", TRUE, TRUE, it_markers \o <<"?", " ">> \o it_few_words \o <<"hellip">>),
     File("it4", TRUE, TRUE, it_bracket \o <<".", " ">> \o it_long),
     File("it5", FALSE, TRUE, <<>>),
     File("it6", TRUE, FALSE, it_plain \o <<" ","c","i","t","t","agrave",".">>),
     File("it7", TRUE, TRUE, <<"4", "2", "\n">> \o it_plain \o <<".">>) >>
JpBooks ==
  << File("jp0", TRUE, FALSE, jp_plain \o <<"jp_maru">>),
     File("jp1", TRUE, TRUE, jp_plain \o <<"jp_maru">> \o jp_short \o <<"jp_maru">>
                             \o jp_digit \o <<"jp_maru">>),
     File("jp2", TRUE, TRUE, jp_fifty \o <<"fw_excl">> \o jp_long \o <<"fw_quest">>
                             \o jp_one_token \o <<"jp_maru">>),
     File("jp3", TRUE, TRUE, jp_chapter \o <<"jp_maru", "\n">> \o jp_dash \o <<"jp_maru">>
                             \o jp_ascii_digit),
     File("jp4", TRUE, TRUE, <<"jp_lq">> \o jp_plain \o <<"jp_rq", "jp_maru">>
                             \o <<"kj_yaku","kj_sha","kj_chuu">> \o jp_fifty \o <<"jp_maru">>),
     File("jp5", TRUE, TRUE, <<"jp_lq">> \o jp_fifty \o <<"jp_rq", "jp_maru">>
                             \o jp_plain \o <<"A", "jp_maru">>) >>

Parsers == {"ca", "it", "jp"}
Books(p) == IF p = "ca" THEN CaBooks ELSE IF p = "it" THEN ItBooks ELSE JpBooks
\* the file a path names
FileAt(p, name) == CHOOSE b \in Range(Books(p)) : b.name = name

(***************************************************************************)
(* State                                                                     *)
(***************************************************************************)
\* the longest list of books a run is given
MaxBooks == 2
\* the longest string handed to a single function call
MaxFnLen == 3
\* the longest input file, in lines, handed to a filter pass
MaxLines == 3
\* the most calls of process_books / process_all_books made on one parser
\* object
MaxRuns == 2

VARIABLES
  parser,            \* which script runs: "ca", "it" or "jp"
  book_paths,        \* the list of book paths of the run
  pc,                \* position of the run
  book_i,            \* number of entries of book_paths already iterated
  raw_sentences,     \* process_book: the candidates of the open book
  sent_i,            \* process_book: number of candidates already iterated
  book_valid_count,  \* process_book: sentences yielded from the open book
  processed_hashes,  \* self.processed_hashes
  stats,             \* self.stats
  total_valid,       \* process_books (Catalan): total_valid
  all_sentences,     \* process_all_books_jp: all_sentences
  out_f,             \* the lines of the primary output file
  last,              \* the locals of the latest iteration of process_book
  seen,              \* history: number of candidates iterated in this run
  passed,            \* history: cleaned text of every gate-accepted candidate
  call,              \* a single function call: name, argument, result
  out_exists,        \* the primary output file was opened for writing
  in_lines,          \* filter pass: the lines of the input file
  line_i,            \* filter pass: number of lines already iterated
  outfile,           \* filter pass: the lines written to the output file
  logfile,           \* filter pass: the entries written to the log file
  detected,          \* language filter: what detect() answers for each line
  seen_sentences,    \* post-cleanup pass: seen_sentences
  counts,            \* filter pass: the counters
  runs,              \* calls of process_books / process_all_books begun
  prev_paths,        \* history: the book list of the previous call
  prev_out,          \* history: the output file as the previous call left it
  seeded,            \* the call before which _load_existing_hashes ran, 0 if none
  unique_written,    \* japanese_final_unique.txt was written in this run
  pure_japanese_lines, \* filter_strict_japanese: the lines it keeps
  removed,           \* remove_duplicates: the number of removed duplicates it reports
  gens,              \* process_book generators created on one parser object
  emitted            \* history: <<generator, sentence>> of every yield

vars == <<parser, book_paths, pc, book_i, raw_sentences, sent_i, book_valid_count,
          processed_hashes, stats, total_valid, all_sentences, out_f, last, seen,
          passed, call, out_exists, in_lines, line_i, outfile, logfile,
          detected, seen_sentences, counts, runs, prev_paths, prev_out, seeded,
          unique_written, pure_japanese_lines, removed, gens, emitted>>
\* the variables of the filter passes that follow the parser
post_vars ==
  <<in_lines, line_i, outfile, logfile, detected, seen_sentences, counts>>
\* the variables of repeated calls on one parser object
run_vars == <<runs, prev_paths, prev_out, seeded>>
\* the variables of the Japanese script after its duplicate check
jp_vars == <<unique_written, pure_japanese_lines, removed>>
\* the variables of hand-driven process_book generators
gen_vars == <<gens, emitted>>
later_vars == <<run_vars, jp_vars, gen_vars>>

\* lists of distinct paths, at most n long
Paths(p, n) ==
  {q \in UNION {[1..k -> {b.name : b \in Range(Books(p))}] : k \in 0..n} :
      \A i, j \in DOMAIN q : i # j => q[i] # q[j]}
\* position of a file name in the sorted listing of the folder
NameOrder(p, name) == CHOOSE i \in DOMAIN Books(p) : Books(p)[i].name = name
\* sorted([f for f in os.listdir(book_folder) ...])
IsSortedListing(p, q) ==
  \A i, j \in DOMAIN q : i < j => NameOrder(p, q[i]) < NameOrder(p, q[j])

\* the orders in which main can hand the files of q to the parser:
\* find_books_in_directory and process_all_books_jp sort the listing of the
\* folder, the Italian main passes list(BOOKS_DIR.glob('*.txt')) on in the
\* order the file system returns it
Listings(p, q) ==
  {r \in [DOMAIN q -> Range(q)] :
     /\ Range(r) = Range(q)
     /\ p \in {"ca", "jp"} => IsSortedListing(p, r)}

\* BookParser.__init__ / ItalianBookParser.__init__: self.stats
ca_new_stats ==
  [total_sentences_found |-> 0, valid_sentences |-> 0, books_processed |-> 0,
   sentences_by_book |-> <<>>]
RejectReasons ==
  {"too_short", "too_long", "has_digits", "bad_chars", "not_upper", "word_count",
   "duplicate"}
it_new_stats(total_books) ==
  [total_books |-> total_books, total_sentences |-> 0, valid_sentences |-> 0,
   sentences_by_book |-> <<>>, rejected |-> [r \in RejectReasons |-> 0]]

NoIteration ==
  [sentence |-> <<>>, is_valid |-> FALSE, reason |-> "none", cleaned |-> <<>>,
   yielded |-> FALSE]
NoCall == [fn |-> "none", arg |-> <<>>, result |-> <<>>]

\* the state of a fresh process: parser object constructed, nothing run
Idle ==
  /\ book_i = 0
  /\ raw_sentences = <<>>
  /\ sent_i = 0
  /\ book_valid_count = 0
  /\ processed_hashes = {}
  /\ stats = IF parser = "ca" THEN ca_new_stats
             ELSE IF parser = "it" THEN it_new_stats(0) ELSE <<>>
  /\ total_valid = 0
  /\ all_sentences = <<>>
  /\ out_f = <<>>
  /\ last = NoIteration
  /\ seen = 0
  /\ passed = <<>>
  /\ out_exists = FALSE
  /\ runs = 1
  /\ prev_paths = <<>>
  /\ prev_out = <<>>
  /\ seeded = 0
  /\ unique_written = FALSE
  /\ pure_japanese_lines = <<>>
  /\ removed = 0
  /\ emitted = <<>>

\* no filter pass has run
NoPass ==
  /\ in_lines = <<>>
  /\ line_i = 0
  /\ outfile = <<>>
  /\ logfile = <<>>
  /\ detected = <<>>
  /\ seen_sentences = {}
  /\ counts = <<>>

Init ==
  /\ parser \in Parsers
  /\ book_paths \in Paths(parser, MaxBooks)
  /\ book_paths \in Listings(parser, book_paths)
  /\ pc = "start"
  /\ Idle
  /\ gens = <<>>
  /\ call = NoCall
  /\ NoPass

(***************************************************************************)
(* Catalan and Italian runs: process_books / process_all_books driving the   *)
(* generator process_book                                                    *)
(***************************************************************************)
book_path == book_paths[book_i + 1]
book == FileAt(parser, book_path)

\* main(): an empty book list returns before the parser is run
NoBooks ==
  /\ pc = "start"
  /\ parser \in {"ca", "it"}
  /\ book_paths = <<>>
  /\ pc' = "done"
  /\ UNCHANGED <<parser, book_paths, book_i, raw_sentences, sent_i, book_valid_count,
                 processed_hashes, stats, total_valid, all_sentences, out_f, last,
                 seen, passed, call>>
  /\ UNCHANGED <<out_exists, post_vars>>
  /\ UNCHANGED later_vars

\* process_books without the reset of processed_hashes
Start_keeps_hashes ==
  /\ pc = "start"
  /\ parser \in {"ca", "it"}
  /\ book_paths # <<>>
  /\ processed_hashes' = processed_hashes
  /\ stats' = IF parser = "ca" THEN ca_new_stats ELSE it_new_stats(Len(book_paths))
  /\ total_valid' = 0
  /\ out_f' = <<>>
  /\ pc' = "books"
  /\ last' = NoIteration
  /\ seen' = 0
  /\ passed' = <<>>
  /\ UNCHANGED <<parser, book_paths, book_i, raw_sentences, sent_i, book_valid_count,
                 all_sentences, call>>
  /\ out_exists' = TRUE
  /\ UNCHANGED post_vars
  /\ UNCHANGED later_vars

\* process_books / process_all_books up to the loop: hashes and statistics
\* are reset and the output file is opened with mode 'w'
Start ==
  /\ pc = "start"
  /\ parser \in {"ca", "it"}
  /\ book_paths # <<>>
  /\ processed_hashes' = {}
  /\ stats' = IF parser = "ca" THEN ca_new_stats ELSE it_new_stats(Len(book_paths))
  /\ total_valid' = 0
  /\ out_f' = <<>>
  /\ pc' = "books"
  /\ last' = NoIteration
  /\ seen' = 0
  /\ passed' = <<>>
  /\ UNCHANGED <<parser, book_paths, book_i, raw_sentences, sent_i, book_valid_count,
                 all_sentences, call>>
  /\ out_exists' = TRUE
  /\ UNCHANGED post_vars
  /\ UNCHANGED later_vars

\* "if not book_path.exists(): continue"
SkipMissing ==
  /\ pc = "books"
  /\ parser \in {"ca", "it"}
  /\ book_i < Len(book_paths)
  /\ ~book.exists
  /\ book_i' = book_i + 1
  /\ UNCHANGED <<parser, book_paths, pc, raw_sentences, sent_i, book_valid_count,
                 processed_hashes, stats, total_valid, all_sentences, out_f, last,
                 seen, passed, call>>
  /\ UNCHANGED <<out_exists, post_vars>>
  /\ UNCHANGED later_vars

\* process_book up to its loop: the file is read (the Catalan parser reads it
\* again as Latin-1 when it does not decode), normalised, stripped of
\* metadata and split
OpenBook ==
  /\ pc = "books"
  /\ parser \in {"ca", "it"}
  /\ book_i < Len(book_paths)
  /\ book.exists
  /\ book.utf8 \/ parser = "ca"
  /\ stats' = IF parser = "ca"
              THEN [stats EXCEPT !.books_processed = @ + 1] ELSE stats
  /\ raw_sentences' =
       LET text == remove_metadata(normalize_text(book.text)) IN
       IF parser = "ca" THEN ca_split_into_sentences(text)
       ELSE it_split_into_sentences(text)
  /\ sent_i' = 0
  /\ book_valid_count' = 0
  /\ pc' = "sentences"
  /\ UNCHANGED <<parser, book_paths, book_i, processed_hashes, total_valid,
                 all_sentences, out_f, last, seen, passed, call>>
  /\ UNCHANGED <<out_exists, post_vars>>
  /\ UNCHANGED later_vars

\* the read raises and the exception leaves process_all_books: the run ends
\* at this book
UnreadableBook_propagates ==
  /\ pc = "books"
  /\ parser = "it"
  /\ book_i < Len(book_paths)
  /\ book.exists
  /\ ~book.utf8
  /\ pc' = "done"
  /\ UNCHANGED <<parser, book_paths, book_i, raw_sentences, sent_i, book_valid_count,
                 processed_hashes, stats, total_valid, all_sentences, out_f, last,
                 seen, passed, call>>
  /\ UNCHANGED <<out_exists, post_vars>>
  /\ UNCHANGED later_vars

\* Italian process_book: the read raises, the generator returns at once
UnreadableBook ==
  /\ pc = "books"
  /\ parser = "it"
  /\ book_i < Len(book_paths)
  /\ book.exists
  /\ ~book.utf8
  /\ book_i' = book_i + 1
  /\ UNCHANGED <<parser, book_paths, pc, raw_sentences, sent_i, book_valid_count,
                 processed_hashes, stats, total_valid, all_sentences, out_f, last,
                 seen, passed, call>>
  /\ UNCHANGED <<out_exists, post_vars>>
  /\ UNCHANGED later_vars

\* the loop body of process_book with the yield outside the uniqueness test:
\* every accepted sentence is written
CaStep_writes_every_valid ==
  /\ pc = "sentences"
  /\ parser = "ca"
  /\ sent_i < Len(raw_sentences)
  /\ \E sentence \in {raw_sentences[sent_i + 1]} :
     \E is_valid \in {ca_is_valid_sentence(sentence)} :
     \E cleaned \in {IF is_valid THEN ca_clean_sentence(sentence) ELSE <<>>} :
     \E sentence_hash \in {get_sentence_hash(cleaned)} :
     \E yielded \in {is_valid /\ sentence_hash \notin processed_hashes} :
        /\ processed_hashes' =
             IF yielded THEN processed_hashes \cup {sentence_hash}
             ELSE processed_hashes
        /\ book_valid_count' = IF yielded THEN book_valid_count + 1
                               ELSE book_valid_count
        /\ out_f' = IF is_valid THEN Append(out_f, cleaned) ELSE out_f
        /\ total_valid' = IF yielded THEN total_valid + 1 ELSE total_valid
        /\ last' = [sentence |-> sentence, is_valid |-> is_valid,
                    reason |-> IF is_valid THEN "" ELSE "rejected",
                    cleaned |-> cleaned, yielded |-> yielded]
        /\ passed' = IF is_valid THEN Append(passed, cleaned) ELSE passed
  /\ sent_i' = sent_i + 1
  /\ seen' = seen + 1
  /\ UNCHANGED <<parser, book_paths, pc, book_i, raw_sentences, stats,
                 all_sentences, call>>
  /\ UNCHANGED <<out_exists, post_vars>>
  /\ UNCHANGED later_vars

\* Catalan: one iteration of the loop of process_book together with the
\* body of the consuming loop of process_books
CaStep ==
  /\ pc = "sentences"
  /\ parser = "ca"
  /\ sent_i < Len(raw_sentences)
  /\ \E sentence \in {raw_sentences[sent_i + 1]} :
     \E is_valid \in {ca_is_valid_sentence(sentence)} :
     \E cleaned \in {IF is_valid THEN ca_clean_sentence(sentence) ELSE <<>>} :
     \E sentence_hash \in {get_sentence_hash(cleaned)} :
     \E yielded \in {is_valid /\ sentence_hash \notin processed_hashes} :
        /\ processed_hashes' =
             IF yielded THEN processed_hashes \cup {sentence_hash}
             ELSE processed_hashes
        /\ book_valid_count' = IF yielded THEN book_valid_count + 1
                               ELSE book_valid_count
        /\ out_f' = IF yielded THEN Append(out_f, cleaned) ELSE out_f
        /\ total_valid' = IF yielded THEN total_valid + 1 ELSE total_valid
        /\ last' = [sentence |-> sentence, is_valid |-> is_valid,
                    reason |-> IF is_valid THEN "" ELSE "rejected",
                    cleaned |-> cleaned, yielded |-> yielded]
        /\ passed' = IF is_valid THEN Append(passed, cleaned) ELSE passed
  /\ sent_i' = sent_i + 1
  /\ seen' = seen + 1
  /\ UNCHANGED <<parser, book_paths, pc, book_i, raw_sentences, stats,
                 all_sentences, call>>
  /\ UNCHANGED <<out_exists, post_vars>>
  /\ UNCHANGED later_vars

\* Italian: one iteration of the loop of process_book together with the
\* body of the consuming loop of process_all_books
ItStep ==
  /\ pc = "sentences"
  /\ parser = "it"
  /\ sent_i < Len(raw_sentences)
  /\ \E sentence \in {raw_sentences[sent_i + 1]} :
     \E verdict \in {it_is_valid_sentence(sentence, processed_hashes)} :
     \E is_valid \in {verdict[1]} :
     \E reason \in {verdict[2]} :
     \E cleaned \in {IF is_valid THEN it_clean_sentence(sentence) ELSE <<>>} :
     \E sentence_hash \in {get_sentence_hash(cleaned)} :
     \E yielded \in {is_valid /\ sentence_hash \notin processed_hashes} :
        /\ processed_hashes' =
             IF yielded THEN processed_hashes \cup {sentence_hash}
             ELSE processed_hashes
        /\ book_valid_count' = IF yielded THEN book_valid_count + 1
                               ELSE book_valid_count
        /\ stats' =
             IF yielded THEN [stats EXCEPT !.valid_sentences = @ + 1]
             ELSE IF ~is_valid THEN [stats EXCEPT !.rejected[reason] = @ + 1]
             ELSE stats
        /\ out_f' = IF yielded THEN Append(out_f, cleaned) ELSE out_f
        /\ last' = [sentence |-> sentence, is_valid |-> is_valid, reason |-> reason,
                    cleaned |-> cleaned, yielded |-> yielded]
        /\ passed' = IF is_valid THEN Append(passed, cleaned) ELSE passed
  /\ sent_i' = sent_i + 1
  /\ seen' = seen + 1
  /\ UNCHANGED <<parser, book_paths, pc, book_i, raw_sentences, total_valid,
                 all_sentences, call>>
  /\ UNCHANGED <<out_exists, post_vars>>
  /\ UNCHANGED later_vars

\* process_book after its loop: the per-book count is recorded and the
\* consuming loop moves to the next book
EndBook ==
  /\ pc = "sentences"
  /\ sent_i = Len(raw_sentences)
  /\ stats' = [stats EXCEPT !.sentences_by_book =
                 (book_path :> book_valid_count) @@ @]
  /\ book_i' = book_i + 1
  /\ pc' = "books"
  /\ UNCHANGED <<parser, book_paths, raw_sentences, sent_i, book_valid_count,
                 processed_hashes, total_valid, all_sentences, out_f, last, seen,
                 passed, call>>
  /\ UNCHANGED <<out_exists, post_vars>>
  /\ UNCHANGED later_vars

\* process_books / process_all_books after the loop
Finish ==
  /\ pc = "books"
  /\ parser \in {"ca", "it"}
  /\ book_i = Len(book_paths)
  /\ stats' = IF parser = "ca"
              THEN [stats EXCEPT !.valid_sentences = total_valid] ELSE stats
  /\ pc' = "done"
  /\ UNCHANGED <<parser, book_paths, book_i, raw_sentences, sent_i, book_valid_count,
                 processed_hashes, total_valid, all_sentences, out_f, last, seen,
                 passed, call>>
  /\ UNCHANGED <<out_exists, post_vars>>
  /\ UNCHANGED later_vars

\* the stripped non-empty lines of a file:
\* [line.strip() for line in f if line.strip()]
StrippedNonEmpty(lines) ==
  LET stripped == [i \in DOMAIN lines |-> Strip(lines[i])]
  IN SelectSeq(stripped, LAMBDA l : l # <<>>)

\* BookParser._load_existing_hashes(output_file), called on the parser
\* object after a run: the hash of every non-empty line of the output file
\* is added to processed_hashes
LoadExistingHashes ==
  /\ pc = "done"
  /\ parser = "ca"
  /\ out_exists
  /\ runs < MaxRuns
  /\ seeded # runs + 1
  /\ processed_hashes' = processed_hashes \cup
       {get_sentence_hash(l) : l \in Range(StrippedNonEmpty(out_f))}
  /\ seeded' = runs + 1
  /\ UNCHANGED <<parser, book_paths, pc, book_i, raw_sentences, sent_i,
                 book_valid_count, stats, total_valid, all_sentences, out_f, last,
                 seen, passed, call>>
  /\ UNCHANGED <<out_exists, post_vars>>
  /\ UNCHANGED <<runs, prev_paths, prev_out, jp_vars, gen_vars>>

\* the folder is listed and process_books / process_all_books is called once
\* more on the same parser object: the locals of the call are fresh, the
\* attributes of the object and the output file are as the previous call
\* left them
RunAgain ==
  /\ pc = "done"
  /\ parser \in {"ca", "it"}
  /\ out_exists
  /\ runs < MaxRuns
  /\ runs' = runs + 1
  /\ prev_paths' = book_paths
  /\ prev_out' = out_f
  /\ book_paths' \in Listings(parser, book_paths)
  /\ pc' = "start"
  /\ book_i' = 0
  /\ raw_sentences' = <<>>
  /\ sent_i' = 0
  /\ book_valid_count' = 0
  /\ UNCHANGED <<parser, processed_hashes, stats, total_valid, all_sentences,
                 out_f, last, seen, passed, call>>
  /\ UNCHANGED <<out_exists, post_vars>>
  /\ UNCHANGED <<seeded, jp_vars, gen_vars>>

(***************************************************************************)
(* Japanese run: process_all_books_jp                                        *)
(***************************************************************************)
\* process_all_books_jp up to the loop
JpStart ==
  /\ pc = "start"
  /\ parser = "jp"
  /\ all_sentences' = <<>>
  /\ pc' = "books"
  /\ UNCHANGED <<parser, book_paths, book_i, raw_sentences, sent_i, book_valid_count,
                 processed_hashes, stats, total_valid, out_f, last, seen, passed,
                 call>>
  /\ UNCHANGED <<out_exists, post_vars>>
  /\ UNCHANGED later_vars

\* one iteration of the loop over book_files: the book is read and its
\* sentences are appended to all_sentences
JpBook ==
  /\ pc = "books"
  /\ parser = "jp"
  /\ book_i < Len(book_paths)
  /\ book.utf8
  /\ all_sentences' = all_sentences \o clean_and_split_sentences_jp(book.text)
  /\ book_i' = book_i + 1
  /\ UNCHANGED <<parser, book_paths, pc, raw_sentences, sent_i, book_valid_count,
                 processed_hashes, stats, total_valid, out_f, last, seen, passed,
                 call>>
  /\ UNCHANGED <<out_exists, post_vars>>
  /\ UNCHANGED later_vars

\* one iteration of the loop over book_files: the read raises and the
\* except clause reports the book
JpUnreadable ==
  /\ pc = "books"
  /\ parser = "jp"
  /\ book_i < Len(book_paths)
  /\ ~book.utf8
  /\ book_i' = book_i + 1
  /\ UNCHANGED <<parser, book_paths, pc, raw_sentences, sent_i, book_valid_count,
                 processed_hashes, stats, total_valid, all_sentences, out_f, last,
                 seen, passed, call>>
  /\ UNCHANGED <<out_exists, post_vars>>
  /\ UNCHANGED later_vars

\* process_all_books_jp after the loop: japanese_start.txt is written
JpWrite ==
  /\ pc = "books"
  /\ parser = "jp"
  /\ book_i = Len(book_paths)
  /\ out_f' = all_sentences
  /\ pc' = "done"
  /\ UNCHANGED <<parser, book_paths, book_i, raw_sentences, sent_i, book_valid_count,
                 processed_hashes, stats, total_valid, all_sentences, last, seen,
                 passed, call>>
  /\ out_exists' = TRUE
  /\ UNCHANGED post_vars
  /\ UNCHANGED later_vars

(***************************************************************************)
(* Japanese script after process_all_books_jp: check_duplicates and          *)
(* remove_duplicates on japanese_start.txt                                   *)
(***************************************************************************)
\* ' '.join(line.split()).lower() of a stripped line; md5 is taken to be
\* injective, so the digest is represented by this key
jp_line_hash(line) == Lower(CollapseWhitespace(Strip(line)))

\* check_duplicates(final_file): the statistics are returned, or the
\* division by total_lines raises ZeroDivisionError, which nothing catches
JpCheckDuplicates ==
  /\ pc = "done"
  /\ parser = "jp"
  /\ \E lines \in {StrippedNonEmpty(out_f)} :
     \E hashes \in {{jp_line_hash(lines[i]) : i \in DOMAIN lines}} :
        IF Len(lines) = 0
        THEN /\ pc' = "raised"
             /\ stats' = stats
        ELSE /\ pc' = "checked"
             /\ stats' = [total |-> Len(lines), unique |-> Cardinality(hashes),
                          duplicate_lines |-> Len(lines) - Cardinality(hashes)]
  /\ UNCHANGED <<parser, book_paths, book_i, raw_sentences, sent_i, book_valid_count,
                 processed_hashes, total_valid, all_sentences, out_f, last, seen,
                 passed, call>>
  /\ UNCHANGED <<out_exists, post_vars>>
  /\ UNCHANGED later_vars

\* "if stats['duplicate_lines'] > 0: remove_duplicates(final_file,
\* unique_file)": the first line of every hash is written to
\* japanese_final_unique.txt and the number of removed duplicates is
\* reported as len(seen_hashes) - len(unique_lines)
JpRemoveDuplicates ==
  /\ pc = "checked"
  /\ parser = "jp"
  /\ stats.duplicate_lines > 0
  /\ \E lines \in {StrippedNonEmpty(out_f)} :
     \E firsts \in {SelectSeq([i \in DOMAIN lines |-> i],
                       LAMBDA i : \A j \in 1..(i - 1) :
                                    jp_line_hash(lines[j]) # jp_line_hash(lines[i]))} :
     \E seen_hashes \in {{jp_line_hash(lines[i]) : i \in DOMAIN lines}} :
       /\ outfile' = [k \in DOMAIN firsts |-> lines[firsts[k]]]
       /\ removed' = Cardinality(seen_hashes) - Len(firsts)
  /\ unique_written' = TRUE
  /\ pc' = "deduplicated"
  /\ UNCHANGED <<parser, book_paths, book_i, raw_sentences, sent_i, book_valid_count,
                 processed_hashes, stats, total_valid, all_sentences, out_f, last,
                 seen, passed, call>>
  /\ UNCHANGED <<out_exists, in_lines, line_i, logfile, detected, seen_sentences,
                 counts>>
  /\ UNCHANGED <<pure_japanese_lines, run_vars, gen_vars>>

\* quick_filter_japanese(input_file, output_file1) of the main block, which
\* follows the duplicate check whether or not remove_duplicates ran: it opens
\* japanese_final_unique.txt for reading; in an output folder that holds only
\* what this run wrote the open raises FileNotFoundError when the file was
\* not written.  The filtered list is only printed.
JpQuickFilter ==
  /\ parser = "jp"
  /\ pc = "deduplicated" \/ (pc = "checked" /\ stats.duplicate_lines = 0)
  /\ pc' = IF unique_written THEN "quick_filtered" ELSE "input_missing"
  /\ UNCHANGED <<parser, book_paths, book_i, raw_sentences, sent_i, book_valid_count,
                 processed_hashes, stats, total_valid, all_sentences, out_f, last,
                 seen, passed, call>>
  /\ UNCHANGED <<out_exists, post_vars>>
  /\ UNCHANGED later_vars

\* re.search(r'[A-Za-z]', line); the roman-numeral and quoted-word rules of
\* filter_strict_japanese match only lines with a Latin letter, which this
\* rule has already removed
HasLatinLetter(line) == \E k \in Idx(line) : line[k] \in AsciiUpper \cup AsciiLower

\* filter_strict_japanese(input_file, output_file2): the stripped non-empty
\* lines of japanese_final_unique.txt without a Latin letter are kept
JpStrictFilter ==
  /\ parser = "jp"
  /\ pc = "quick_filtered"
  /\ pure_japanese_lines' =
       SelectSeq(StrippedNonEmpty(outfile), LAMBDA line : ~HasLatinLetter(line))
  /\ pc' = "strict_filtered"
  /\ UNCHANGED <<parser, book_paths, book_i, raw_sentences, sent_i, book_valid_count,
                 processed_hashes, stats, total_valid, all_sentences, out_f, last,
                 seen, passed, call>>
  /\ UNCHANGED <<out_exists, post_vars>>
  /\ UNCHANGED <<unique_written, removed, run_vars, gen_vars>>

Next ==
  \/ NoBooks
  \/ Start
  \/ SkipMissing
  \/ OpenBook
  \/ UnreadableBook
  \/ CaStep
  \/ ItStep
  \/ EndBook
  \/ Finish
  \/ LoadExistingHashes
  \/ RunAgain
  \/ JpStart
  \/ JpBook
  \/ JpUnreadable
  \/ JpWrite
  \/ JpCheckDuplicates
  \/ JpRemoveDuplicates
  \/ JpQuickFilter
  \/ JpStrictFilter

Spec == Init /\ [][Next]_vars

(***************************************************************************)
(* process_book generators driven by hand: several generators created on    *)
(* one parser object and advanced with next() in any alternation            *)
(***************************************************************************)
\* the number of generators
MaxGens == 2

\* process_book up to its loop: the candidates of a book
GenCandidates(p, name) ==
  LET text == remove_metadata(normalize_text(FileAt(p, name).text)) IN
  IF p = "ca" THEN ca_split_into_sentences(text)
  ELSE it_split_into_sentences(text)
\* the gate of the loop body
GenGate(p, sentence, hashes) ==
  IF p = "ca" THEN ca_is_valid_sentence(sentence)
  ELSE it_is_valid_sentence(sentence, hashes)[1]
\* "cleaned = self.clean_sentence(sentence)"
GenClean(p, sentence) ==
  IF p = "ca" THEN ca_clean_sentence(sentence) ELSE it_clean_sentence(sentence)
\* the loop of process_book resumed after candidate i: the index of the
\* candidate at which it reaches the yield, 0 if it runs to the end
NextYield(p, sentences, i, hashes) ==
  LET ks == {k \in (i + 1)..Len(sentences) :
               /\ GenGate(p, sentences[k], hashes)
               /\ get_sentence_hash(GenClean(p, sentences[k])) \notin hashes}
  IN IF ks = {} THEN 0 ELSE Min(ks)
\* the Italian else branch for the candidates a..b:
\* self.stats['rejected'][reason] += 1
RejectedIn(p, st, sentences, a, b, hashes) ==
  IF p = "ca" THEN st
  ELSE [st EXCEPT !.rejected =
          [r \in RejectReasons |->
             @[r] + Cardinality({j \in a..b :
                      it_is_valid_sentence(sentences[j], hashes) = <<FALSE, r>>})]]

\* a generator object that has not been advanced
NewGen(name) ==
  [book |-> name, started |-> FALSE, sentences |-> <<>>, i |-> 0, count |-> 0,
   cleaned |-> <<>>, done |-> FALSE]

\* a fresh parser object and generators for books that exist
InitGen ==
  /\ parser \in {"ca", "it"}
  /\ book_paths = <<>>
  /\ pc = "generators"
  /\ Idle
  /\ call = NoCall
  /\ NoPass
  /\ \E names \in [1..MaxGens -> {b.name : b \in {c \in Range(Books(parser)) : c.exists}}] :
       gens = [g \in 1..MaxGens |-> NewGen(names[g])]

\* next(gen): the generator runs from where it is suspended (from its first
\* statement when it was never advanced) to the next yield or to its end,
\* with "hashes" as self.processed_hashes when it resumes; "add" tells
\* whether the hash is added before the yield
GenStep(g, hashes, add) ==
  /\ pc = "generators"
  /\ ~gens[g].done
  /\ \E me \in {gens[g]} :
     \E unreadable \in {parser = "it" /\ ~FileAt(parser, me.book).utf8} :
     \E sentences \in {IF me.started THEN me.sentences
                       ELSE IF unreadable THEN <<>>
                       ELSE GenCandidates(parser, me.book)} :
     \E k \in {NextYield(parser, sentences, me.i, hashes)} :
       IF unreadable
       THEN /\ gens' = [gens EXCEPT ![g] = [me EXCEPT !.started = TRUE, !.done = TRUE]]
            /\ processed_hashes' = hashes
            /\ UNCHANGED <<stats, emitted>>
       ELSE IF k = 0
       THEN /\ gens' = [gens EXCEPT ![g] =
                 [me EXCEPT !.started = TRUE, !.sentences = sentences,
                            !.i = Len(sentences), !.done = TRUE]]
            /\ processed_hashes' = hashes
            /\ stats' = [RejectedIn(parser, stats, sentences, me.i + 1,
                                    Len(sentences), hashes)
                           EXCEPT !.sentences_by_book = (me.book :> me.count) @@ @]
            /\ emitted' = emitted
       ELSE \E cleaned \in {GenClean(parser, sentences[k])} :
            /\ gens' = [gens EXCEPT ![g] =
                 [me EXCEPT !.started = TRUE, !.sentences = sentences, !.i = k,
                            !.count = @ + 1, !.cleaned = cleaned]]
            /\ processed_hashes' =
                 IF add THEN hashes \cup {get_sentence_hash(cleaned)} ELSE hashes
            /\ stats' = LET st == RejectedIn(parser, stats, sentences, me.i + 1,
                                             k - 1, hashes)
                        IN IF parser = "it"
                           THEN [st EXCEPT !.valid_sentences = @ + 1] ELSE st
            /\ emitted' = Append(emitted, <<g, cleaned>>)
  /\ UNCHANGED <<parser, book_paths, pc, book_i, raw_sentences, sent_i,
                 book_valid_count, total_valid, all_sentences, out_f, last, seen,
                 passed, call>>
  /\ UNCHANGED <<out_exists, post_vars>>
  /\ UNCHANGED <<run_vars, jp_vars>>

\* next(gen) of a generator in which the yield comes before
\* "self.processed_hashes.add(sentence_hash)": the hash of the sentence it
\* is suspended at is added when it resumes
GenNext_yield_before_add(g) ==
  GenStep(g, IF gens[g].count > 0
             THEN processed_hashes \cup {get_sentence_hash(gens[g].cleaned)}
             ELSE processed_hashes, FALSE)

\* next(gen) of process_book
GenNext(g) == GenStep(g, processed_hashes, TRUE)

NextGen == \E g \in DOMAIN gens : GenNext(g)

SpecGen == InitGen /\ [][NextGen]_vars

(***************************************************************************)
(* Single calls of the cleaners on arbitrary strings                         *)
(***************************************************************************)
\* the characters short arguments are made of
FnAlphabet == {"a", "B", " ", ",", "'", "-", "_", "."}
StringsUpTo(n) == UNION {[1..k -> FnAlphabet] : k \in 0..n}
\* the candidates the corpus books contain
CorpusCandidates ==
  {ca_plain, ca_case, ca_symbols, ca_glued, ca_digit, ca_short, ca_underscore,
   ca_chapter, ca_bracket, it_plain, it_case, it_markers, it_symbols,
   it_underscores, it_short_digit, it_digit, it_bracket, it_few_words}
CorpusTexts == {b.text : b \in Range(JpBooks)}
\* further arguments: the example sentence of the Catalan pipeline, sentences
\* with exception-list words, Japanese sentences without separators
ca_example ==
  <<"E","r","a"," ","u","n"," ","d","i","a"," ","m","o","l","t"," ","f","r","e","d"," ",
    "i"," ","l","a"," ","p","l","u","j","a"," ","n","o"," ","p","a","r","a","v","a"," ",
    "d","e"," ","c","a","u","r","e"," ","s","o","b","r","e"," ","l","a"," ",
    "c","i","u","t","a","t">>
ca_si_no == <<"s","i"," ","n","o"," ","S","i"," ","t","r","e","s">>
it_qui_no == <<"q","u","i"," ","n","o"," ","s","e"," ","d","u","e">>
jp_hiragana_only == <<"hi_no","hi_wa","hi_ga">>
jp_mixed == <<"kj_yama","hi_no","ka_a","ka_ka","jp_maru","a","hi_wo","hi_ni">>
FurtherArgs == {ca_example, ca_si_no, it_qui_no, jp_hiragana_only, jp_mixed, jp_unit}
FnArgs ==
  StringsUpTo(MaxFnLen) \cup CorpusCandidates \cup CorpusTexts \cup FurtherArgs

InitFn ==
  /\ parser \in Parsers
  /\ book_paths = <<>>
  /\ pc = "call"
  /\ Idle
  /\ gens = <<>>
  /\ call \in [fn : {"none"}, arg : FnArgs, result : {<<>>}]
  /\ NoPass

\* BookParser.clean_sentence(arg)
CallCaClean ==
  /\ pc = "call"
  /\ parser = "ca"
  /\ call.fn = "none"
  /\ call' = [call EXCEPT !.fn = "clean_sentence",
                          !.result = ca_clean_sentence(call.arg)]
  /\ UNCHANGED <<parser, book_paths, pc, book_i, raw_sentences, sent_i,
                 book_valid_count, processed_hashes, stats, total_valid,
                 all_sentences, out_f, last, seen, passed>>
  /\ UNCHANGED <<out_exists, post_vars>>
  /\ UNCHANGED later_vars

\* ItalianBookParser.clean_sentence(arg)
CallItClean ==
  /\ pc = "call"
  /\ parser = "it"
  /\ call.fn = "none"
  /\ call' = [call EXCEPT !.fn = "clean_sentence",
                          !.result = it_clean_sentence(call.arg)]
  /\ UNCHANGED <<parser, book_paths, pc, book_i, raw_sentences, sent_i,
                 book_valid_count, processed_hashes, stats, total_valid,
                 all_sentences, out_f, last, seen, passed>>
  /\ UNCHANGED <<out_exists, post_vars>>
  /\ UNCHANGED later_vars

\* clean_and_split_sentences_jp(arg): the result is the list of sentences
CallJpSplit ==
  /\ pc = "call"
  /\ parser = "jp"
  /\ call.fn = "none"
  /\ call' = [call EXCEPT !.fn = "clean_and_split_sentences_jp",
                          !.result = clean_and_split_sentences_jp(call.arg)]
  /\ UNCHANGED <<parser, book_paths, pc, book_i, raw_sentences, sent_i,
                 book_valid_count, processed_hashes, stats, total_valid,
                 all_sentences, out_f, last, seen, passed>>
  /\ UNCHANGED <<out_exists, post_vars>>
  /\ UNCHANGED later_vars

\* BookParser.clean_sentence called on the string it returned
CallCaCleanAgain ==
  /\ pc = "call"
  /\ parser = "ca"
  /\ call.fn = "clean_sentence"
  /\ call' = [fn |-> "clean_sentence_again", arg |-> call.result,
              result |-> ca_clean_sentence(call.result)]
  /\ UNCHANGED <<parser, book_paths, pc, book_i, raw_sentences, sent_i,
                 book_valid_count, processed_hashes, stats, total_valid,
                 all_sentences, out_f, last, seen, passed>>
  /\ UNCHANGED <<out_exists, post_vars>>
  /\ UNCHANGED later_vars

\* ItalianBookParser.clean_sentence called on the string it returned
CallItCleanAgain ==
  /\ pc = "call"
  /\ parser = "it"
  /\ call.fn = "clean_sentence"
  /\ call' = [fn |-> "clean_sentence_again", arg |-> call.result,
              result |-> it_clean_sentence(call.result)]
  /\ UNCHANGED <<parser, book_paths, pc, book_i, raw_sentences, sent_i,
                 book_valid_count, processed_hashes, stats, total_valid,
                 all_sentences, out_f, last, seen, passed>>
  /\ UNCHANGED <<out_exists, post_vars>>
  /\ UNCHANGED later_vars

\* BookParser.is_valid_sentence(arg)
CallCaValid ==
  /\ pc = "call"
  /\ parser = "ca"
  /\ call.fn = "none"
  /\ call' = [call EXCEPT !.fn = "is_valid_sentence",
                          !.result = ca_is_valid_sentence(call.arg)]
  /\ UNCHANGED <<parser, book_paths, pc, book_i, raw_sentences, sent_i,
                 book_valid_count, processed_hashes, stats, total_valid,
                 all_sentences, out_f, last, seen, passed>>
  /\ UNCHANGED <<out_exists, post_vars>>
  /\ UNCHANGED later_vars

\* the language's word counter, called the way the language's gate calls it:
\* count_catalan_words(sentence, self.config.min_words),
\* count_italian_words(sentence), count_japanese_words(sent)
WordCount(p, line) ==
  IF p = "ca" THEN count_catalan_words(line, min_words)
  ELSE IF p = "it" THEN count_italian_words(line, default_min_word_length)
  ELSE count_japanese_words(line)

\* the word counter of the language called on arg
CallWordCount ==
  /\ pc = "call"
  /\ call.fn = "none"
  /\ call' = [call EXCEPT !.fn = "word_count",
                          !.result = WordCount(parser, call.arg)]
  /\ UNCHANGED <<parser, book_paths, pc, book_i, raw_sentences, sent_i,
                 book_valid_count, processed_hashes, stats, total_valid,
                 all_sentences, out_f, last, seen, passed>>
  /\ UNCHANGED <<out_exists, post_vars>>
  /\ UNCHANGED later_vars

NextFn ==
  \/ CallCaClean
  \/ CallItClean
  \/ CallJpSplit
  \/ CallCaCleanAgain
  \/ CallItCleanAgain
  \/ CallCaValid
  \/ CallWordCount

SpecFn == InitFn /\ [][NextFn]_vars
(***************************************************************************)
(* Language filter: catalan_check_language.py and filter_by_language         *)
(***************************************************************************)
ENABLE_LANGUAGE_CHECK == TRUE
\* italian_parser.LANGUAGE_CHECK_SAMPLE_SIZE is 50000; the model scales it
\* down so that input files longer than the sample exist
LANGUAGE_CHECK_SAMPLE_SIZE == 2

\* the texts of the lines of an input file: an empty line and two sentences,
\* one of them with whitespace around it
LangLines == {<<>>, <<"a">>, <<" ", "b", " ">>}
\* detect(line) returns a language code or raises LangDetectException
DetectOutcomes == {"ca", "it", "raise"}
\* the positions of the lines with "line.strip()" non-empty
NonEmptyIdx(lines) ==
  SelectSeq([i \in DOMAIN lines |-> i], LAMBDA i : Strip(lines[i]) # <<>>)

\* len(check_lines) for an input of total_lines lines: everything is
\* classified
check_count_everything(total_lines) == total_lines

\* len(check_lines): lines[:min(LANGUAGE_CHECK_SAMPLE_SIZE, total_lines)] if
\* ENABLE_LANGUAGE_CHECK else lines
check_count(total_lines) ==
  IF ENABLE_LANGUAGE_CHECK THEN Min({LANGUAGE_CHECK_SAMPLE_SIZE, total_lines})
  ELSE total_lines

\* the entry f"{num}: [{lang}] {line}" of the rejection log
LogEntry(num, lang, line) ==
  [num |-> num, lang |-> IF lang = "raise" THEN "UNKNOWN" ELSE lang, line |-> line]

\* the input file of a language filter and the answers of the classifier
InitLang ==
  /\ parser \in {"ca", "it"}
  /\ book_paths = <<>>
  /\ pc = "language"
  /\ Idle
  /\ gens = <<>>
  /\ call = NoCall
  /\ \E n \in 0..MaxLines :
       /\ in_lines \in [1..n -> LangLines]
       /\ detected \in [1..n -> DetectOutcomes \cup {"none"}]
  /\ \A i \in DOMAIN in_lines : detected[i] = "none" <=> Strip(in_lines[i]) = <<>>
  /\ line_i = 0
  /\ outfile = <<>>
  /\ logfile = <<>>
  /\ seen_sentences = {}
  /\ counts = [ca_count |-> 0, non_ca_count |-> 0]

\* catalan_check_language.py: one iteration of the loop over infile
CaLangStep ==
  /\ pc = "language"
  /\ parser = "ca"
  /\ line_i < Len(in_lines)
  /\ \E line_num \in {line_i + 1} :
     \E line \in {Strip(in_lines[line_num])} :
     \E lang \in {detected[line_num]} :
        IF line = <<>>
        THEN UNCHANGED <<outfile, logfile, counts>>
        ELSE IF lang = "ca"
        THEN /\ outfile' = Append(outfile, line)
             /\ counts' = [counts EXCEPT !.ca_count = @ + 1]
             /\ logfile' = logfile
        ELSE /\ logfile' = Append(logfile, LogEntry(line_num, lang, line))
             /\ counts' = [counts EXCEPT !.non_ca_count = @ + 1]
             /\ outfile' = outfile
  /\ line_i' = line_i + 1
  /\ UNCHANGED <<parser, book_paths, pc, book_i, raw_sentences, sent_i,
                 book_valid_count, processed_hashes, stats, total_valid,
                 all_sentences, out_f, last, seen, passed, call, out_exists,
                 in_lines, detected, seen_sentences>>
  /\ UNCHANGED later_vars

\* catalan_check_language.py after the loop
CaLangEnd ==
  /\ pc = "language"
  /\ parser = "ca"
  /\ line_i = Len(in_lines)
  /\ pc' = "language_done"
  /\ UNCHANGED <<parser, book_paths, book_i, raw_sentences, sent_i,
                 book_valid_count, processed_hashes, stats, total_valid,
                 all_sentences, out_f, last, seen, passed, call, out_exists>>
  /\ UNCHANGED post_vars
  /\ UNCHANGED later_vars

\* filter_by_language: one iteration of the loop over check_lines
ItLangStep ==
  /\ pc = "language"
  /\ parser = "it"
  /\ \E idx \in {NonEmptyIdx(in_lines)} :
       /\ line_i < check_count(Len(idx))
       /\ \E line \in {Strip(in_lines[idx[line_i + 1]])} :
          \E lang \in {detected[idx[line_i + 1]]} :
            IF lang = "it"
            THEN /\ outfile' = Append(outfile, line)
                 /\ counts' = [counts EXCEPT !.ca_count = @ + 1]
                 /\ logfile' = logfile
            ELSE /\ logfile' = Append(logfile, LogEntry(line_i + 1, lang, line))
                 /\ counts' = [counts EXCEPT !.non_ca_count = @ + 1]
                 /\ outfile' = outfile
  /\ line_i' = line_i + 1
  /\ UNCHANGED <<parser, book_paths, pc, book_i, raw_sentences, sent_i,
                 book_valid_count, processed_hashes, stats, total_valid,
                 all_sentences, out_f, last, seen, passed, call, out_exists,
                 in_lines, detected, seen_sentences>>
  /\ UNCHANGED later_vars

\* filter_by_language after the loop: the lines beyond the sample are written
\* without being classified
ItLangRest ==
  /\ pc = "language"
  /\ parser = "it"
  /\ \E idx \in {NonEmptyIdx(in_lines)} :
       /\ line_i = check_count(Len(idx))
       /\ IF ENABLE_LANGUAGE_CHECK /\ Len(idx) > LANGUAGE_CHECK_SAMPLE_SIZE
          THEN /\ outfile' = outfile \o
                    [k \in 1..(Len(idx) - LANGUAGE_CHECK_SAMPLE_SIZE) |->
                       Strip(in_lines[idx[LANGUAGE_CHECK_SAMPLE_SIZE + k]])]
               /\ counts' = [counts EXCEPT
                    !.ca_count = @ + Len(idx) - LANGUAGE_CHECK_SAMPLE_SIZE]
          ELSE UNCHANGED <<outfile, counts>>
  /\ pc' = "language_done"
  /\ UNCHANGED <<parser, book_paths, book_i, raw_sentences, sent_i,
                 book_valid_count, processed_hashes, stats, total_valid,
                 all_sentences, out_f, last, seen, passed, call, out_exists,
                 in_lines, line_i, logfile, detected, seen_sentences>>
  /\ UNCHANGED later_vars

NextLang ==
  \/ CaLangStep
  \/ CaLangEnd
  \/ ItLangStep
  \/ ItLangRest

SpecLang == InitLang /\ [][NextLang]_vars

(***************************************************************************)
(* The post-cleanup pass: catalan_check_other.py and                        *)
(* italian_parser.final_cleanup                                             *)
(***************************************************************************)
\* the class [a-zA-ZÀ-ÿ] of count_words
LatinWordChars == AsciiLower \cup AsciiUpper \cup RangeLatin1Letters
\* the class [A-ZÀ-ÿ] of the capitals rule
CapsChars == RangeAZ \cup RangeLatin1Letters

\* str.strip(chars) for a character set C
StripChars(s, C) ==
  LET a == SkipIn(s, 1, C)
      b == CHOOSE k \in 0..Len(s) :
             (k = 0 \/ s[k] \notin C) /\ \A j \in (k + 1)..Len(s) : s[j] \in C
  IN SubSeq(s, a, b)

\* catalan_check_other.count_words: len(re.findall(r'[a-zA-ZÀ-ÿ]+', text))
count_words(text) == Cardinality(RunStarts(text, LatinWordChars))

\* re.search(r'<[^>]+>|&[a-z]+;', s)
HasMarkup(s) ==
  \/ \E i \in 1..Len(s) :
       s[i] = "<" /\ FindIn(s, i + 1, {">"}) \in (i + 2)..Len(s)
  \/ \E i \in 1..Len(s) :
       /\ s[i] = "&"
       /\ \E e \in {SkipIn(s, i + 1, AsciiLower)} :
            e > i + 1 /\ e <= Len(s) /\ s[e] = ";"

\* the tail \s+\d+ of the chapter patterns, matched from index k
HeadingNumber(s, k) ==
  \E d \in {SkipS(s, k)} : d > k /\ d <= Len(s) /\ s[d] \in DigitChars

\* re.match(r'^(CAP[ÍI]TOL|Cap[íi]tol|CAP[ÍI]TLE|Cap[íi]tle)\s+\d+', s,
\* re.IGNORECASE)
ca_is_chapter(s) ==
  /\ StartsAtIgnoreCase(s, 1, <<"C", "A", "P">>)
  /\ Len(s) >= 4
  /\ s[4] \in {"I", "i", "Iacute", "iacute"}
  /\ \/ StartsAtIgnoreCase(s, 5, <<"T", "O", "L">>)
     \/ StartsAtIgnoreCase(s, 5, <<"T", "L", "E">>)
  /\ HeadingNumber(s, 8)

\* re.match(r'^(CAPITOLO|Capitolo)\s+\d+', s, re.IGNORECASE)
it_is_chapter(s) ==
  /\ StartsAtIgnoreCase(s, 1, <<"C", "A", "P", "I", "T", "O", "L", "O">>)
  /\ HeadingNumber(s, 9)

\* \d{4} at index d
FourDigits(s, d) ==
  d + 3 <= Len(s) /\ \A k \in d..(d + 3) : s[k] \in DigitChars

\* re.search(r'\d+\s+(w1|w2|..)\s+[letters]+\s+(of\s+)?\d{4}', s,
\* re.IGNORECASE) for the prepositions preps, the month letters and the
\* optional word of
HasDate(s, preps, letters, of) ==
  \E p \in 1..Len(s) :
    /\ s[p] \in DigitChars
    /\ \E a \in {SkipS(s, p + 1)} :
       /\ a > p + 1
       /\ \E w \in preps :
          /\ StartsAtIgnoreCase(s, a, w)
          /\ \E b \in {SkipS(s, a + Len(w))} :
             /\ b > a + Len(w)
             /\ \E c \in {SkipIn(s, b, letters)} :
                /\ c > b
                /\ \E d \in {SkipS(s, c)} :
                   /\ d > c
                   /\ \/ FourDigits(s, d)
                      \/ /\ StartsAtIgnoreCase(s, d, of)
                         /\ \E e \in {SkipS(s, d + Len(of))} :
                              e > d + Len(of) /\ FourDigits(s, e)

\* catalan_check_other.py: r"\d+\s+(de|d')\s+[a-zç]+\s+(de\s+)?\d{4}"
ca_has_date(s) ==
  HasDate(s, {<<"d", "e">>, <<"d", "'">>},
          AsciiLower \cup AsciiUpper \cup {"ccedil", "Ccedil"}, <<"d", "e">>)

\* final_cleanup: r'\d+\s+(di|del|dell[oa])\s+[a-z]+\s+(di\s+)?\d{4}'
it_has_date(s) ==
  HasDate(s, {<<"d", "i">>, <<"d", "e", "l">>, <<"d", "e", "l", "l", "o">>,
              <<"d", "e", "l", "l", "a">>},
          AsciiLower \cup AsciiUpper, <<"d", "i">>)

\* re.search(r'https?://|www\.|\S+@\S+\.\S+', s)
HasUrl(s) ==
  \E i \in 1..Len(s) :
    \/ StartsAt(s, i, <<"h", "t", "t", "p", ":", "/", "/">>)
    \/ StartsAt(s, i, <<"h", "t", "t", "p", "s", ":", "/", "/">>)
    \/ StartsAt(s, i, <<"w", "w", "w", ".">>)
    \/ /\ s[i] = "@"
       /\ i > 1
       /\ ~IsS(s[i - 1])
       /\ \E e \in {FindIn(s, i + 1, Whitespace)} :
            \E d \in (i + 2)..(e - 2) : s[d] = "."

\* re.search(r'\b\d+\b', s)
HasStandaloneNumber(s) ==
  \E a \in RunStarts(s, DigitChars) :
    /\ a = 1 \/ s[a - 1] \notin WChars
    /\ \E e \in {SkipIn(s, a, DigitChars)} : e > Len(s) \/ s[e] \notin WChars

\* len(re.findall(r'[A-ZÀ-ÿ]{2,}', s))
ca_caps_words(s) ==
  Cardinality({a \in RunStarts(s, CapsChars) : SkipIn(s, a, CapsChars) - a >= 2})

\* len(re.findall(r'\b[A-ZÀ-ÿ]{3,}\b', s))
it_caps_words(s) ==
  Cardinality({a \in RunStarts(s, WChars) :
                 \E e \in {SkipIn(s, a, WChars)} :
                   e - a >= 3 /\ \A k \in a..(e - 1) : s[k] \in CapsChars})

\* original.lower().strip('.,;!?¿¡')
cleanup_normalized_keeps_case(original) ==
  StripChars(original, {".", ",", ";", "!", "?", "iquest", "iexcl"})
cleanup_normalized(original) ==
  StripChars(Lower(original), {".", ",", ";", "!", "?", "iquest", "iexcl"})

\* re.search(r'[.!?¿¡…»]$', s) of catalan_check_other.py
ca_has_end_punctuation(s) ==
  s # <<>> /\ s[Len(s)] \in {".", "!", "?", "iquest", "iexcl", "hellip", "raquo"}
\* re.search(r'[.!?…]$', s) of final_cleanup
it_has_end_punctuation(s) ==
  s # <<>> /\ s[Len(s)] \in {".", "!", "?", "hellip"}

\* s[:n]
Prefix(s, n) == SubSeq(s, 1, IF Len(s) < n THEN Len(s) ELSE n)

\* the lines of an input file of catalan_check_other.py: one for each rule
\* of the pass and a pair that differs in case and outer punctuation only
ca_line_blank ==
  <<" ">>
ca_line_short ==
  <<"U","n"," ","d","o","s"," ","t","r","e","s",".">>
ca_line_long == Repeat(<<"a", " ">>, 71)
ca_line_html ==
  <<"<","b",">"," ","u","n"," ","d","o","s"," ","t","r","e","s"," ","s",
    "e","t"," ","v","u","i","t"," ","n","o","u"," ","d","e","u">>
ca_line_chapter ==
  <<"C","a","p","iacute","t","o","l"," ","3"," ","u","n"," ","d","o","s",
    " ","t","r","e","s"," ","s","e","t"," ","v","u","i","t"," ","n","o",
    "u">>
ca_line_date ==
  <<"E","l"," ","1","5"," ","d","e"," ","m","a","r","ccedil"," ","d","e",
    " ","2","0","2","4"," ","u","n"," ","d","o","s"," ","t","r","e","s">>
ca_line_url ==
  <<"w","w","w",".","a"," ","u","n"," ","d","o","s"," ","t","r","e","s",
    " ","s","e","t"," ","v","u","i","t"," ","n","o","u">>
ca_line_plain ==
  <<"U","n"," ","d","o","s"," ","t","r","e","s"," ","s","e","t"," ","v",
    "u","i","t"," ","n","o","u"," ","d","e","u",".">>
ca_line_again ==
  <<"iquest","u","n"," ","d","o","s"," ","t","r","e","s"," ","s","e","t",
    " ","v","u","i","t"," ","n","o","u"," ","d","e","u","?","!">>
ca_line_digits ==
  <<"J","a"," ","3"," ","u","n"," ","d","o","s"," ","t","r","e","s"," ",
    "s","e","t"," ","v","u","i","t"," ","n","o","u"," ","d","e","u">>
ca_line_caps ==
  <<"A","A"," ","B","B"," ","C","C"," ","D","D"," ","u","n"," ","d","o",
    "s"," ","t","r","e","s",".">>
CaCleanupLines ==
  {ca_line_blank,
   ca_line_short,
   ca_line_long,
   ca_line_html,
   ca_line_chapter,
   ca_line_date,
   ca_line_url,
   ca_line_plain,
   ca_line_again,
   ca_line_digits,
   ca_line_caps}

\* the lines of an input file of final_cleanup
it_line_blank ==
  <<" ">>
it_line_caps ==
  <<"A","A","A"," ","B","B","B"," ","C","C","C"," ","D","D","D",".">>
it_line_caps_short ==
  <<"A","A"," ","B","B"," ","C","C"," ","D","D",".">>
it_line_html ==
  <<"&","a","m","p",";"," ","u","n","o">>
it_line_chapter ==
  <<"c","a","p","i","t","o","l","o"," ","3">>
it_line_date ==
  <<"3"," ","d","e","l","l","o"," ","m","a","r","z","o"," ","d","i"," ",
    "2","0","2","4">>
it_line_url ==
  <<"a","@","b",".","c">>
it_line_plain ==
  <<"U","n","o"," ","d","u","e",".">>
it_line_again ==
  <<"u","n","o"," ","d","u","e","!">>
it_line_open ==
  <<"U","n","o"," ","t","r","e">>
ItCleanupLines ==
  {it_line_blank,
   it_line_caps,
   it_line_caps_short,
   it_line_html,
   it_line_chapter,
   it_line_date,
   it_line_url,
   it_line_plain,
   it_line_again,
   it_line_open}

\* the keys of the Counter of catalan_check_other.py and of the stats
\* dictionary of final_cleanup
ca_cleanup_keys ==
  {"short", "long", "html", "chapter", "date", "url", "digits", "repeat",
   "uppercase", "punctuation", "accepted"}
it_cleanup_keys ==
  {"accepted", "too_many_caps", "html_tags", "url_email", "chapter_markers",
   "dates", "repeats", "no_punctuation"}
\* stats[k] += 1 for every k of keys
Bump(c, keys) == [k \in DOMAIN c |-> IF k \in keys THEN c[k] + 1 ELSE c[k]]

\* a line f"{num}: TAG: {text}" of the cleaning log, and one with a count in
\* brackets after the tag
LogLine(num, tag, text) == [num |-> num, tag |-> tag, line |-> text]
LogCount(num, tag, n, text) == [num |-> num, tag |-> tag, n |-> n, line |-> text]
\* f"{original[:n]}..."
Shortened(original, n) == Prefix(original, n) \o <<".", ".", ".">>

\* catalan_check_other.py, checks 1 to 5: the key of the first check that
\* rejects the line, "none" if it passes them all
ca_reject_reason(original) ==
  IF count_words(original) < 7 THEN "short"
  ELSE IF count_words(original) > 70 THEN "long"
  ELSE IF HasMarkup(original) THEN "html"
  ELSE IF ca_is_chapter(original) THEN "chapter"
  ELSE IF ca_has_date(original) THEN "date"
  ELSE IF HasUrl(original) THEN "url"
  ELSE "none"
\* the log line written with the rejection
ca_reject_entry(i, reason, original) ==
  IF reason = "short" THEN LogCount(i, reason, count_words(original), original)
  ELSE IF reason = "long"
  THEN LogCount(i, reason, count_words(original), Shortened(original, 50))
  ELSE LogLine(i, reason, original)

\* final_cleanup, checks 1 to 5
it_reject_reason(original) ==
  IF it_caps_words(original) > 3 THEN "too_many_caps"
  ELSE IF HasMarkup(original) THEN "html_tags"
  ELSE IF it_is_chapter(original) THEN "chapter_markers"
  ELSE IF it_has_date(original) THEN "dates"
  ELSE IF HasUrl(original) THEN "url_email"
  ELSE "none"
it_reject_entry(i, reason, original) ==
  IF reason = "too_many_caps"
  THEN LogCount(i, reason, it_caps_words(original), Shortened(original, 100))
  ELSE IF reason \in {"html_tags", "url_email"}
  THEN LogLine(i, reason, Shortened(original, 100))
  ELSE LogLine(i, reason, original)

\* the input file of a cleanup pass
InitCleanup ==
  /\ parser \in {"ca", "it"}
  /\ book_paths = <<>>
  /\ pc = "cleanup"
  /\ Idle
  /\ gens = <<>>
  /\ call = NoCall
  /\ \E n \in 0..MaxLines :
       in_lines \in [1..n -> IF parser = "ca" THEN CaCleanupLines
                             ELSE ItCleanupLines]
  /\ line_i = 0
  /\ outfile = <<>>
  /\ logfile = <<>>
  /\ detected = <<>>
  /\ seen_sentences = {}
  /\ counts = IF parser = "ca" THEN [k \in ca_cleanup_keys |-> 0]
              ELSE [k \in it_cleanup_keys |-> 0]

\* catalan_check_other.py: one iteration of the loop over infile
CaCleanupStep ==
  /\ pc = "cleanup"
  /\ parser = "ca"
  /\ line_i < Len(in_lines)
  /\ \E i \in {line_i + 1} :
     \E original \in {Strip(in_lines[i])} :
     \E reason \in {IF original = <<>> THEN "empty"
                    ELSE ca_reject_reason(original)} :
       IF reason = "empty"
       THEN UNCHANGED <<outfile, logfile, seen_sentences, counts>>
       ELSE IF reason # "none"
       THEN /\ logfile' = Append(logfile, ca_reject_entry(i, reason, original))
            /\ counts' = Bump(counts, {reason})
            /\ UNCHANGED <<outfile, seen_sentences>>
       ELSE \E normalized \in {cleanup_normalized(original)} :
            \E digits \in {IF HasStandaloneNumber(original) THEN {"digits"}
                           ELSE {}} :
            \E noted \in {[k \in 1..Cardinality(digits) |->
                             LogLine(i, "digits", original)]} :
              IF normalized \in seen_sentences
              THEN /\ logfile' = logfile \o noted
                                   \o <<LogLine(i, "repeat", original)>>
                   /\ counts' = Bump(counts, digits \cup {"repeat"})
                   /\ UNCHANGED <<outfile, seen_sentences>>
              ELSE \E caps \in {IF ca_caps_words(original) > 3
                                THEN {"uppercase"} ELSE {}} :
                   \E dot \in {IF ca_has_end_punctuation(original) THEN {}
                               ELSE {"punctuation"}} :
                     /\ seen_sentences' = seen_sentences \cup {normalized}
                     /\ logfile' = logfile \o noted
                          \o [k \in 1..Cardinality(caps) |->
                                LogLine(i, "uppercase", original)]
                          \o [k \in 1..Cardinality(dot) |->
                                LogLine(i, "punctuation", original)]
                     /\ counts' = Bump(counts, digits \cup caps \cup dot
                                                  \cup {"accepted"})
                     /\ outfile' = Append(outfile,
                          IF dot = {} THEN original ELSE Append(original, "."))
  /\ line_i' = line_i + 1
  /\ UNCHANGED <<parser, book_paths, pc, book_i, raw_sentences, sent_i,
                 book_valid_count, processed_hashes, stats, total_valid,
                 all_sentences, out_f, last, seen, passed, call, out_exists,
                 in_lines, detected>>
  /\ UNCHANGED later_vars

\* final_cleanup: one iteration of the loop over infile
ItCleanupStep ==
  /\ pc = "cleanup"
  /\ parser = "it"
  /\ line_i < Len(in_lines)
  /\ \E i \in {line_i + 1} :
     \E original \in {Strip(in_lines[i])} :
     \E reason \in {IF original = <<>> THEN "empty"
                    ELSE it_reject_reason(original)} :
       IF reason = "empty"
       THEN UNCHANGED <<outfile, logfile, seen_sentences, counts>>
       ELSE IF reason # "none"
       THEN /\ logfile' = Append(logfile, it_reject_entry(i, reason, original))
            /\ counts' = Bump(counts, {reason})
            /\ UNCHANGED <<outfile, seen_sentences>>
       ELSE \E normalized \in {cleanup_normalized(original)} :
              IF normalized \in seen_sentences
              THEN /\ logfile' = Append(logfile,
                          LogLine(i, "repeats", Shortened(original, 100)))
                   /\ counts' = Bump(counts, {"repeats"})
                   /\ UNCHANGED <<outfile, seen_sentences>>
              ELSE \E dot \in {IF it_has_end_punctuation(original) THEN {}
                               ELSE {"no_punctuation"}} :
                     /\ seen_sentences' = seen_sentences \cup {normalized}
                     /\ logfile' = logfile
                          \o [k \in 1..Cardinality(dot) |->
                                LogLine(i, "no_punctuation",
                                        Shortened(original, 100))]
                     /\ counts' = Bump(counts, dot \cup {"accepted"})
                     /\ outfile' = Append(outfile,
                          IF dot = {} THEN original ELSE Append(original, "."))
  /\ line_i' = line_i + 1
  /\ UNCHANGED <<parser, book_paths, pc, book_i, raw_sentences, sent_i,
                 book_valid_count, processed_hashes, stats, total_valid,
                 all_sentences, out_f, last, seen, passed, call, out_exists,
                 in_lines, detected>>
  /\ UNCHANGED later_vars

\* the end of the input file: the three files are closed and the counters
\* reported
CleanupEnd ==
  /\ pc = "cleanup"
  /\ line_i = Len(in_lines)
  /\ pc' = "cleanup_done"
  /\ UNCHANGED <<parser, book_paths, book_i, raw_sentences, sent_i,
                 book_valid_count, processed_hashes, stats, total_valid,
                 all_sentences, out_f, last, seen, passed, call, out_exists>>
  /\ UNCHANGED post_vars
  /\ UNCHANGED later_vars

NextCleanup ==
  \/ CaCleanupStep
  \/ ItCleanupStep
  \/ CleanupEnd

SpecCleanup == InitCleanup /\ [][NextCleanup]_vars

(***************************************************************************)
(* Properties                                                                *)
(***************************************************************************)
\* the canonical key of a line: lower-cased, trimmed, whitespace runs
\* collapsed to one space
CanonicalKey(line) == CollapseWhitespace(Strip(Lower(line)))
\* the entries of seq whose key no earlier entry has
FirstOfEachKey(seq) ==
  LET keys == [i \in DOMAIN seq |-> CanonicalKey(seq[i])]
      kept == SelectSeq([i \in DOMAIN seq |-> i],
                        LAMBDA i : \A j \in 1..(i - 1) : keys[j] # keys[i])
  IN [k \in DOMAIN kept |-> seq[kept[k]]]

\* C1: in a Catalan or Italian run no two lines of the primary output file
\* have the same canonical key, and the lines are, in processing order, the
\* first gate-accepted cleaned sentence of each key
C1_DedupKeepsFirst ==
  parser \in {"ca", "it"} =>
    /\ LET keys == [i \in DOMAIN out_f |-> CanonicalKey(out_f[i])] IN
       \A i, j \in DOMAIN out_f : i # j => keys[i] # keys[j]
    /\ out_f = FirstOfEachKey(passed)
\* a later accepted sentence that differs from an earlier one only in case
\* has been dropped
C1_Witness ==
  /\ parser \in {"ca", "it"}
  /\ pc = "done"
  /\ Len(out_f) < Len(passed)
  /\ \E i, j \in DOMAIN passed :
       i < j /\ passed[i] # passed[j] /\ CanonicalKey(passed[i]) = CanonicalKey(passed[j])

\* C2: in an Italian run every candidate iterated so far was either written
\* or counted under exactly one rejection reason: the number of candidates
\* equals valid_sentences plus the sum of the rejection counters
C2_EveryCandidateAccounted ==
  parser = "it" =>
    seen = stats.valid_sentences
           + stats.rejected["too_short"] + stats.rejected["too_long"]
           + stats.rejected["has_digits"] + stats.rejected["bad_chars"]
           + stats.rejected["not_upper"] + stats.rejected["word_count"]
           + stats.rejected["duplicate"]

\* the rules of the Italian gate in the order the claim gives them
ItalianRules(sentence, hashes) ==
  << <<"too_short", Len(sentence) < MIN_CHARS>>,
     <<"too_long", Len(sentence) > MAX_CHARS>>,
     <<"has_digits", \E k \in DOMAIN sentence : sentence[k] \in DigitChars>>,
     <<"bad_chars", BadCharsSearch(sentence, it_class_members)>>,
     <<"word_count",
       LET n == count_italian_words(sentence, default_min_word_length) IN
       n < MIN_WORDS \/ n > MAX_WORDS>>,
     <<"duplicate", get_sentence_hash(sentence) \in hashes>> >>
\* the reason of the first rule that fails, "" when none does
FirstFailingRule(sentence, hashes) ==
  LET rules == ItalianRules(sentence, hashes)
      failing == {k \in DOMAIN rules : rules[k][2]}
  IN IF failing = {} THEN ""
     ELSE rules[CHOOSE k \in failing : \A j \in failing : k <= j][1]

\* C3: every iteration of the Italian loop reports the first failing rule in
\* the order too_short, too_long, has_digits, bad_chars, word_count,
\* duplicate, and the reason is "" exactly when the candidate is valid
C3_FirstFailingRuleOnly ==
  [][(parser = "it" /\ seen' = seen + 1) =>
       /\ last'.sentence = raw_sentences[sent_i + 1]
       /\ last'.reason = FirstFailingRule(raw_sentences[sent_i + 1], processed_hashes)
       /\ last'.is_valid <=> (last'.reason = "")]_vars
\* a candidate that is both too short and contains a digit was reported as
\* too_short
C3_Witness ==
  /\ parser = "it"
  /\ last.reason = "too_short"
  /\ \E k \in DOMAIN last.sentence : last.sentence[k] \in DigitChars

\* C4: in a Catalan run a gate-accepted candidate whose cleaned text is empty
\* is not yielded, its hash is not recorded and no empty line is written
C4_EmptyCleanedDiscarded ==
  parser = "ca" =>
    /\ \A i \in DOMAIN out_f : out_f[i] # <<>>
    /\ (last.is_valid /\ last.cleaned = <<>>) => ~last.yielded
    /\ get_sentence_hash(<<>>) \notin processed_hashes

\* C5: every non-empty string returned by the Catalan or Italian
\* clean_sentence ends with ".", "!" or "?", and every sentence returned by
\* clean_and_split_sentences_jp ends with the ideographic full stop
C5_TerminalPunctuation ==
  /\ (call.fn = "clean_sentence" /\ call.result # <<>>) =>
       call.result[Len(call.result)] \in {".", "!", "?"}
  /\ call.fn = "clean_and_split_sentences_jp" =>
       \A i \in DOMAIN call.result :
         call.result[i][Len(call.result[i])] = "jp_maru"
\* a cleaner was given a string without a terminal mark and returned a
\* non-empty one
C5_Witness ==
  /\ call.fn = "clean_sentence"
  /\ call.arg # <<>>
  /\ call.arg[Len(call.arg)] \notin {".", "!", "?"}
  /\ call.result # <<>>

\* C6: every non-empty string returned by the Catalan or Italian
\* clean_sentence starts with an uppercase letter
C6_StartsUppercase ==
  (call.fn = "clean_sentence" /\ call.result # <<>>) => IsUpper(call.result[1])

\* C7: no line of the primary output file of any of the three parsers
\* contains a digit, ASCII or fullwidth
C7_NoDigitWritten ==
  \A i \in DOMAIN out_f : \A k \in DOMAIN out_f[i] : out_f[i][k] \notin DigitChars
\* a Catalan candidate with a digit was rejected in a run that wrote a line
C7_Witness ==
  /\ parser = "ca"
  /\ out_f # <<>>
  /\ ~last.is_valid
  /\ Len(last.sentence) >= min_sentence_length
  /\ \E k \in DOMAIN last.sentence : last.sentence[k] \in DigitChars

\* C8: the word count of every line of the primary output file is within the
\* language's bounds (7 to 70 Catalan and Italian, 10 to 70 Japanese)
C8_WordCountInBounds ==
  \A i \in DOMAIN out_f :
    LET n == WordCount(parser, out_f[i]) IN
    IF parser = "ca" THEN min_words <= n /\ n <= max_words
    ELSE IF parser = "it" THEN MIN_WORDS <= n /\ n <= MAX_WORDS
    ELSE jp_min_words <= n /\ n <= jp_max_words

\* C9: the length of every line of the primary output file is within the
\* language's bounds (40 to 400 Catalan, 40 to 500 Italian, 35 to 50 Japanese)
C9_LengthInBounds ==
  \A i \in DOMAIN out_f :
    LET n == Len(out_f[i]) IN
    IF parser = "ca" THEN min_sentence_length <= n /\ n <= max_sentence_length
    ELSE IF parser = "it" THEN MIN_CHARS <= n /\ n <= MAX_CHARS
    ELSE jp_min_chars <= n /\ n <= jp_max_chars

\* C10: every candidate the Catalan or Italian gate accepts consists only of
\* the characters listed in the language's allowed set
C10_AcceptedOnlyAllowedChars ==
  (parser \in {"ca", "it"} /\ last.is_valid) =>
    \A k \in DOMAIN last.sentence :
      last.sentence[k] \in (IF parser = "ca" THEN ca_allowed_special_chars
                            ELSE it_allowed_special_chars)

\* C11: cleaning is idempotent: clean_sentence called on a string it returned
\* returns that string, for the Catalan and the Italian cleaner
C11_CleanerIdempotent ==
  call.fn = "clean_sentence_again" => call.result = call.arg

\* C12: the Catalan gate accepts the example sentence "Era un dia molt fred i
\* la pluja no parava de caure sobre la ciutat" and the cleaner returns it
\* with a period appended
C12_ExampleAccepted ==
  (parser = "ca" /\ call.arg = ca_example) =>
    /\ call.fn = "is_valid_sentence" => call.result = TRUE
    /\ call.fn = "clean_sentence" => call.result = Append(ca_example, ".")

\* C13: in each of the three scripts a run given no books writes no sentence
\* output file and raises no unhandled error
C13_NoBooksNoOutput ==
  book_paths = <<>> => (~out_exists /\ pc # "raised")

\* C14: a book whose bytes do not decode as UTF-8 is handled where it is
\* read: the Catalan parser reads it as Latin-1 and goes on to its
\* candidates; the Italian and Japanese parsers skip it, leaving the written
\* lines, the hashes and the collected sentences as they were, and move to
\* the next book; a finished run has iterated every book of its list
C14_UndecodableBookHandled ==
  /\ [][(pc = "books" /\ book_i < Len(book_paths) /\ book.exists /\ ~book.utf8) =>
          IF parser = "ca"
          THEN /\ pc' = "sentences"
               /\ raw_sentences' =
                    ca_split_into_sentences(remove_metadata(normalize_text(book.text)))
               /\ out_f' = out_f
               /\ processed_hashes' = processed_hashes
          ELSE /\ pc' = "books"
               /\ book_i' = book_i + 1
               /\ out_f' = out_f
               /\ processed_hashes' = processed_hashes
               /\ all_sentences' = all_sentences]_vars
  /\ [](pc = "done" => book_i = Len(book_paths))
\* an Italian or Japanese run whose first book does not decode has finished
\* and has written sentences of its second book
C14_Witness ==
  /\ parser \in {"it", "jp"}
  /\ Len(book_paths) = 2
  /\ ~FileAt(parser, book_paths[1]).utf8
  /\ pc = "done"
  /\ out_f # <<>>

\* C15: when a language filter has finished, every non-empty input line is in
\* exactly one destination: the kept file when the classifier answered the
\* target code (or, Italian, when the line lies beyond the sampled prefix),
\* otherwise the rejection log with the detected code, or with UNKNOWN when
\* the classifier raised; the kept lines are in input order and kept plus
\* rejected is the number of non-empty lines
C15_LanguageRouting ==
  pc = "language_done" =>
    LET idx == NonEmptyIdx(in_lines)
        n == Len(idx)
        keep(k) == \/ detected[idx[k]] = parser
                   \/ (parser = "it" /\ k > LANGUAGE_CHECK_SAMPLE_SIZE)
        keptPos == SelectSeq([k \in 1..n |-> k], keep)
        rejPos == SelectSeq([k \in 1..n |-> k], LAMBDA k : ~keep(k))
    IN /\ outfile = [j \in 1..Len(keptPos) |-> Strip(in_lines[idx[keptPos[j]]])]
       /\ Len(logfile) = Len(rejPos)
       /\ \A j \in 1..Len(rejPos) :
            /\ logfile[j].line = Strip(in_lines[idx[rejPos[j]]])
            /\ logfile[j].lang = IF detected[idx[rejPos[j]]] = "raise" THEN "UNKNOWN"
                                 ELSE detected[idx[rejPos[j]]]
       /\ counts.ca_count = Len(outfile)
       /\ counts.non_ca_count = Len(logfile)
       /\ counts.ca_count + counts.non_ca_count = n
\* an Italian pass has finished on three non-empty lines: the classifier
\* raised on one of the sampled lines and the third line, which it would
\* have called Catalan, was kept unclassified
C15_Witness ==
  /\ pc = "language_done"
  /\ parser = "it"
  /\ Len(NonEmptyIdx(in_lines)) = 3
  /\ detected[3] = "ca"
  /\ \E j \in DOMAIN logfile : logfile[j].lang = "UNKNOWN"
  /\ Len(outfile) = 2

\* the tokens of count_japanese_words: the starts of the maximal runs of
\* characters of one type
JpTokenStarts(text) ==
  {a \in Idx(text) : a = 1 \/ CharType(text[a - 1]) # CharType(text[a])}
\* C16: count_japanese_words counts exactly the tokens that contain a kanji,
\* a katakana or a Latin letter: a run of hiragana only, or of punctuation
\* only, adds nothing
C16_HiraganaTokensNotCounted ==
  (parser = "jp" /\ call.fn = "word_count") =>
    call.result =
      Cardinality({a \in JpTokenStarts(call.arg) :
        \E k \in a..(TokenEnd(call.arg, a) - 1) :
          call.arg[k] \in Kanji \cup Katakana \cup LowerLetters \cup UpperLetters})

\* the function-word set, the exception list and the minimum word length the
\* gate of a language counts words with
GateWordLists(p) ==
  IF p = "ca"
  THEN [fw |-> function_words, sbm |-> short_but_meaningful, minlen |-> min_words]
  ELSE [fw |-> ITALIAN_FUNCTION_WORDS, sbm |-> italian_short_but_meaningful,
        minlen |-> default_min_word_length]
\* the words of a sentence, as the word pattern finds them
WordsOf(s) ==
  {<<a, SubSeq(s, a, SkipIn(s, a, WordPatternChars) - 1)>> :
     a \in RunStarts(s, WordPatternChars)}

\* C17: the Catalan and Italian word counters count a word of the exception
\* list even when it is also a function word; the other words are counted
\* when they are not function words and not shorter than the minimum length
C17_ExceptionWordsCounted ==
  (parser \in {"ca", "it"} /\ call.fn = "word_count") =>
    LET g == GateWordLists(parser) IN
    call.result =
      Cardinality({w \in WordsOf(call.arg) :
        \/ Lower(w[2]) \in g.sbm
        \/ (Lower(w[2]) \notin g.fw /\ Len(w[2]) >= g.minlen)})

\* C18: the word count of the Catalan and Italian gates drops a word that is
\* neither a function word nor in the exception list only when it is shorter
\* than 5 characters
C18_MinWordLengthFive ==
  (parser \in {"ca", "it"} /\ call.fn = "word_count") =>
    LET g == GateWordLists(parser) IN
    call.result =
      Cardinality({w \in WordsOf(call.arg) :
        /\ Lower(w[2]) \notin g.fw
        /\ (Lower(w[2]) \in g.sbm \/ Len(w[2]) >= 5)})

\* the number of all-caps words of a line as the pass of parser p counts them
CapsWordsOf(p, line) ==
  IF p = "ca" THEN ca_caps_words(line) ELSE it_caps_words(line)

\* C19: in the post-cleanup pass of the Catalan script and of the Italian
\* final_cleanup, a line with more than 3 all-caps words is rejected: no line
\* of the cleaned output file has more than 3 all-caps words (the period the
\* pass may append adds none)
C19_CapsLinesRejected ==
  pc \in {"cleanup", "cleanup_done"} =>
    \A k \in DOMAIN outfile : CapsWordsOf(parser, outfile[k]) <= 3

\* a line lower-cased and stripped of leading and trailing '.,;!?¿¡'
C20_Norm(line) ==
  StripChars(Lower(line), {".", ",", ";", "!", "?", "iquest", "iexcl"})
\* the positions among the first n input lines that are not blank and pass
\* checks 1 to 5 of the pass
C20_Passing(n) ==
  SelectSeq([i \in 1..n |-> i],
            LAMBDA i : /\ Strip(in_lines[i]) # <<>>
                       /\ IF parser = "ca"
                          THEN ca_reject_reason(Strip(in_lines[i])) = "none"
                          ELSE it_reject_reason(Strip(in_lines[i])) = "none")
\* input line j has the normalized form of an earlier passing line
C20_IsRepeat(passing, j) ==
  \E k \in DOMAIN passing :
    /\ passing[k] < j
    /\ C20_Norm(Strip(in_lines[passing[k]])) = C20_Norm(Strip(in_lines[j]))

\* C20: in the post-cleanup pass no two lines of the cleaned output are equal
\* after lower-casing and stripping leading and trailing '.,;!?¿¡'; of the
\* input lines read so far that pass the earlier checks and share a
\* normalized form, the first and only the first is written, in input order,
\* and each later one has a repeat entry in the log
C20_RepeatsRejected ==
  pc \in {"cleanup", "cleanup_done"} =>
    /\ \A a, b \in DOMAIN outfile :
         a # b => C20_Norm(outfile[a]) # C20_Norm(outfile[b])
    /\ \E passing \in {C20_Passing(line_i)} :
       \E firsts \in {SelectSeq(passing,
                                LAMBDA j : ~C20_IsRepeat(passing, j))} :
         /\ Len(outfile) = Len(firsts)
         /\ \A k \in DOMAIN firsts :
              C20_Norm(outfile[k]) = C20_Norm(Strip(in_lines[firsts[k]]))
         /\ \A k \in DOMAIN passing :
              C20_IsRepeat(passing, passing[k]) <=>
                \E e \in DOMAIN logfile :
                  /\ logfile[e].num = passing[k]
                  /\ logfile[e].tag \in {"repeat", "repeats"}
\* a finished pass over two passing lines that differ in case and in outer
\* punctuation: one is written, the other logged as a repeat
C20_Witness ==
  /\ pc = "cleanup_done"
  /\ Len(outfile) = 1
  /\ \E i, j \in DOMAIN in_lines :
       /\ i < j
       /\ in_lines[i] # in_lines[j]
       /\ Lower(in_lines[i]) # Lower(in_lines[j])
       /\ C20_Norm(in_lines[i]) = C20_Norm(in_lines[j])
       /\ C20_Norm(outfile[1]) = C20_Norm(in_lines[i])
       /\ \E e \in DOMAIN logfile :
            logfile[e].num = j /\ logfile[e].tag \in {"repeat", "repeats"}

\* C21: a call of process_books (Catalan) or process_all_books (Italian) on
\* a parser object that has run before starts with an empty processed_hashes
\* and an empty output file, and a call with the book list of the previous
\* call ends with the lines of the previous call in the output file, in the
\* same order
C21_FreshRunIndependent ==
  (parser \in {"ca", "it"} /\ runs > 1) =>
    /\ (pc = "books" /\ book_i = 0) => (processed_hashes = {} /\ out_f = <<>>)
    /\ (pc = "done" /\ book_paths = prev_paths) => out_f = prev_out
\* a second call with the same list has ended and has written sentences
C21_Witness ==
  /\ parser \in {"ca", "it"}
  /\ runs = 2
  /\ pc = "done"
  /\ book_paths = prev_paths
  /\ Len(out_f) >= 2

\* C22: in a Catalan call of process_books made after _load_existing_hashes
\* read the existing output file, the lines that were in the file stay in it
\* and no sentence with the hash of one of those lines is written again
C22_SeedStaysInEffect ==
  (parser = "ca" /\ seeded = runs /\ pc \in {"books", "sentences", "done"}) =>
    /\ Len(out_f) >= Len(prev_out)
    /\ SubSeq(out_f, 1, Len(prev_out)) = prev_out
    /\ \A k \in (Len(prev_out) + 1)..Len(out_f) :
         get_sentence_hash(out_f[k]) \notin
           {get_sentence_hash(prev_out[j]) : j \in DOMAIN prev_out}

\* C23: whatever the alternation in which process_book generators created on
\* one parser object are advanced, no two yielded sentences have the same
\* canonical hash: the test of the hash and its insertion are not separated
\* by a yield
C23_AdmissionAtomic ==
  pc = "generators" =>
    \A a, b \in DOMAIN emitted :
      a # b => CanonicalKey(emitted[a][2]) # CanonicalKey(emitted[b][2])
\* two generators have both yielded, and one of them passed over a candidate
\* that the gate accepts because the other had yielded its hash
C23_Witness ==
  /\ pc = "generators"
  /\ \E a, b \in DOMAIN emitted : emitted[a][1] # emitted[b][1]
  /\ \E g \in DOMAIN gens : \E k \in 1..gens[g].i :
       /\ GenGate(parser, gens[g].sentences[k], {})
       /\ \E a \in DOMAIN emitted :
            /\ emitted[a][1] # g
            /\ CanonicalKey(emitted[a][2]) =
                 CanonicalKey(GenClean(parser, gens[g].sentences[k]))

\* C24: in every language variant the books are processed in the order of
\* their file names, and a run over the same set of files as the previous
\* run ends with the same lines in the same order, whatever the order in
\* which the folder was listed
C24_ListingOrderIrrelevant ==
  /\ pc \in {"books", "sentences", "done"} => IsSortedListing(parser, book_paths)
  /\ (runs > 1 /\ pc = "done" /\ Range(book_paths) = Range(prev_paths)) =>
       out_f = prev_out

\* the length, digit and word-count rules of the Japanese gate
\* (japan_parser.py:300-316), evaluated on a candidate as the segmenter
\* hands it over
C25_JpRawGate(piece) ==
  LET c == Strip(piece) IN
  /\ ~\E k \in Idx(c) : c[k] \in DigitChars
  /\ Len(c) >= jp_min_chars
  /\ Len(c) <= jp_max_chars
  /\ count_japanese_words(c) >= jp_min_words
  /\ count_japanese_words(c) <= jp_max_words

\* the pieces of the books already iterated that the Japanese loop accepted
C25_JpAccepted ==
  UNION {{piece \in Range(jp_pieces(FileAt("jp", book_paths[k]).text)) :
            jp_sentence(piece) # <<>>} :
         k \in {k \in 1..book_i : FileAt("jp", book_paths[k]).utf8}}

\* C25: in every variant the gate comes before the cleaner.  Catalan and
\* Italian: the verdict of an iteration is the gate's verdict on the candidate
\* as segmented, and only an accepted candidate has a cleaned text.  Japanese:
\* every piece that contributed a sentence passes the length, digit and
\* word-count rules as segmented, before any cleaning.
C25_GateBeforeCleaner ==
  /\ (parser = "ca" /\ last # NoIteration) =>
        /\ last.is_valid = ca_is_valid_sentence(last.sentence)
        /\ last.cleaned # <<>> => last.is_valid
  /\ (parser = "it" /\ last # NoIteration) =>
        /\ last.is_valid => it_is_valid_sentence(last.sentence, {})[1]
        /\ last.cleaned # <<>> => last.is_valid
  /\ (parser = "jp" /\ pc \in {"books", "write", "done"}) =>
        \A piece \in C25_JpAccepted : C25_JpRawGate(piece)

\* the stripped source lines of a text that consist only of digits and
\* punctuation
C26_DigitOnlyLines(text) ==
  {Strip(l) : l \in {l \in Range(SplitFrom(text, 1, {"\n"})) :
                       /\ \A k \in Idx(l) : l[k] \in DigitLineChars
                       /\ \E k \in Idx(l) : l[k] \in DigitChars}}

\* C26: the normalizer removes the digit-only lines of a book before it is
\* segmented: no candidate of the open book contains the content of a
\* digit-only line of the book's text.
C26_DigitLinesRemoved ==
  (parser \in {"ca", "it"} /\ pc = "sentences") =>
     \A l \in C26_DigitOnlyLines(book.text) :
       \A n \in DOMAIN raw_sentences :
         ~\E i \in Idx(raw_sentences[n]) : StartsAt(raw_sentences[n], i, l)

\* the marker words of cleaner step 1
C27_Markers(p) ==
  IF p = "it"
  THEN {<<"I","N","T","R","O","D","U","Z","I","O","N","E">>, <<"P","R","O","L","O","G","O">>,
        <<"P","R","E","F","A","C","E">>, <<"I","N","D","I","C","E">>}
  ELSE {<<"C","A","P","I","T","O","L">>, <<"C","A","P","iacute","T","O","L">>}

\* C27: cleaner step 1 strips a marker only at the start of the sentence: a
\* marker word that occurs after the first position of an accepted candidate,
\* in any letter case, still occurs in its cleaned text.
C27_MarkerInsideKept ==
  (parser \in {"ca", "it"} /\ last.is_valid /\ last.cleaned # <<>>) =>
     \A m \in C27_Markers(parser) :
       (\E i \in 2..Len(last.sentence) : StartsAtIgnoreCase(last.sentence, i, m)) =>
         \E j \in Idx(last.cleaned) : StartsAtIgnoreCase(last.cleaned, j, m)

\* C28: in the Japanese main flow japanese_final_unique.txt has been written
\* by remove_duplicates in this run whenever quick_filter_japanese and
\* filter_strict_japanese open it, also when the parsed sentences hold no
\* duplicate.
C28_UniqueWrittenBeforeRead ==
  (parser = "jp" /\ pc \in {"quick_filtered", "input_missing", "strict_filtered"}) =>
     unique_written

\* C29: during and after a Catalan or Italian run the number of lines written
\* to the primary output equals the size of processed_hashes and the count of
\* valid sentences (the running count during the run, stats.valid_sentences
\* when the run has ended); within a run processed_hashes only grows and
\* every written line adds exactly one new hash.
C29_LinesHashesCount ==
  /\ [](parser \in {"ca", "it"} =>
          /\ pc \in {"books", "sentences", "done"} =>
               /\ Len(out_f) = Cardinality(processed_hashes)
               /\ Len(out_f) = IF parser = "ca" THEN total_valid
                               ELSE stats.valid_sentences
          /\ (pc = "done" /\ out_exists) => stats.valid_sentences = Len(out_f))
  /\ [][(parser \in {"ca", "it"} /\ pc \in {"books", "sentences"}) =>
          /\ processed_hashes \subseteq processed_hashes'
          /\ Len(out_f') - Len(out_f) \in {0, 1}
          /\ Len(out_f') - Len(out_f) =
               Cardinality(processed_hashes' \ processed_hashes)]_vars

\* a run of two books has ended in which a line was written and an accepted
\* candidate was passed over as a duplicate
C29_Witness ==
  /\ parser \in {"ca", "it"}
  /\ pc = "done"
  /\ Len(book_paths) = 2
  /\ Len(out_f) >= 1
  /\ Len(passed) > Len(out_f)
  /\ stats.valid_sentences = Len(out_f)
  /\ Cardinality(processed_hashes) = Len(out_f)

\* the indices of the lines that are the first of their hash class
C30_FirstIdx(lines) ==
  {i \in DOMAIN lines :
     \A j \in 1..(i - 1) : jp_line_hash(lines[j]) # jp_line_hash(lines[i])}

\* C30: remove_duplicates writes, in input order, the first line of every
\* hash class of the non-empty input lines, and the number of removed
\* duplicates it reports is the number of non-empty input lines minus the
\* number of lines written.
C30_FirstOccurrencesAndCount ==
  (parser = "jp" /\ unique_written) =>
     LET lines == StrippedNonEmpty(out_f)
         first == C30_FirstIdx(lines)
     IN /\ Len(outfile) = Cardinality(first)
        /\ \A i \in first :
             outfile[Cardinality({j \in first : j <= i})] = lines[i]
        /\ removed = Len(lines) - Len(outfile)

\* the written lines alone: the first line of every hash class, in input order
C30_FirstOccurrences ==
  (parser = "jp" /\ unique_written) =>
     LET lines == StrippedNonEmpty(out_f)
         first == C30_FirstIdx(lines)
     IN /\ Len(outfile) = Cardinality(first)
        /\ \A i \in first :
             outfile[Cardinality({j \in first : j <= i})] = lines[i]

====
